---- MODULE Spec2Model ----
(***************************************************************************)
(* seo-info: the aggregation engine analyzeSEO (src/index.js), its probes, *)
(* the report emitters and the advanced analyzers, as a state machine.     *)
(*                                                                         *)
(* JavaScript strings are TLA+ strings; Len, SubSeq and \o act on them.    *)
(* A value that may be null or undefined is wrapped: Some(v), JSNull,      *)
(* JSUndefined.  An object is a record; {} is the empty record <<>>.      *)
(***************************************************************************)
EXTENDS Integers, Sequences, FiniteSets, TLC

VARIABLES
    entry,      \* how the run was started: "none", "api" or "cli"
    cli,        \* the command line of a CLI run
    cliPc,      \* the position of the CLI action handler
    options,    \* the options object of the analyzeSEO call
    html,       \* the htmlContent argument of the analyzeSEO call
    pc,         \* the position of analyzeSEO
    locals,     \* the constants analyzeSEO has computed before it combines them
    results,    \* the results object of analyzeSEO
    thrown,     \* the error analyzeSEO rejected with
    handles,    \* the browser processes that are open
    world,      \* counters of what analyzeSEO did: DOMs built, requests, launches
    reports,    \* the report files written, in order
    log,        \* the lines written with console.error
    scored      \* the last analyzer applied on its own, with input and output

vars == <<entry, cli, cliPc, options, html, pc, locals, results, thrown,
          handles, world, reports, log, scored>>

-----------------------------------------------------------------------------
(* JavaScript values *)

JSNull == [null |-> TRUE]
JSUndefined == [undefined |-> TRUE]
Some(v) == [v |-> v]

\* x || null for a header value that may be absent
OrNull(h, k) == IF k \in DOMAIN h /\ h[k] # "" THEN Some(h[k]) ELSE JSNull

Min(a, b) == IF a < b THEN a ELSE b
Max(a, b) == IF a > b THEN a ELSE b

\* Math.round(n / d) for n >= 0, d > 0: halves round up
RoundDiv(n, d) == (2 * n + d) \div (2 * d)

RECURSIVE SumSeq(_)
SumSeq(s) == IF s = <<>> THEN 0 ELSE Head(s) + SumSeq(Tail(s))

RECURSIVE Concat(_)
Concat(ss) == IF ss = <<>> THEN <<>> ELSE Head(ss) \o Concat(Tail(ss))

SeqToSet(s) == {s[i] : i \in 1..Len(s)}

\* the elements of s at the positions in `chosen`, in order
RECURSIVE SelectSeqOf(_, _)
SelectSeqOf(s, chosen) ==
    IF chosen = {} THEN <<>>
    ELSE LET first == CHOOSE i \in chosen : \A j \in chosen : i <= j
         IN <<s[first]>> \o SelectSeqOf(s, chosen \ {first})

-----------------------------------------------------------------------------
(* String operations of the JavaScript runtime *)

UpperChars == {"A","B","C","D","E","F","G","H","I","J","K","L","M",
               "N","O","P","Q","R","S","T","U","V","W","X","Y","Z"}
LowerChars == {"a","b","c","d","e","f","g","h","i","j","k","l","m",
               "n","o","p","q","r","s","t","u","v","w","x","y","z"}
DigitChars == {"0","1","2","3","4","5","6","7","8","9"}
\* the regular expression class \w
WordChars == UpperChars \cup LowerChars \cup DigitChars \cup {"_"}

CharAt(s, i) == SubSeq(s, i, i)

\* String.prototype.includes
Includes(s, sub) ==
    \E i \in 1..(Len(s) - Len(sub) + 1) : SubSeq(s, i, i + Len(sub) - 1) = sub

\* String.prototype.startsWith / endsWith
StartsWith(s, p) == Len(s) >= Len(p) /\ SubSeq(s, 1, Len(p)) = p
EndsWith(s, p) == Len(s) >= Len(p) /\ SubSeq(s, Len(s) - Len(p) + 1, Len(s)) = p

\* RegExp.test for a one-character class
HasCharIn(s, class) == \E i \in 1..Len(s) : CharAt(s, i) \in class
HasCharNotIn(s, class) == \E i \in 1..Len(s) : CharAt(s, i) \notin class

\* (s.match(/c/g) || []).length
CountChar(s, c) == Cardinality({i \in 1..Len(s) : CharAt(s, i) = c})

LowerOf(c) ==
    CASE c = "A" -> "a" [] c = "B" -> "b" [] c = "C" -> "c" [] c = "D" -> "d"
      [] c = "E" -> "e" [] c = "F" -> "f" [] c = "G" -> "g" [] c = "H" -> "h"
      [] c = "I" -> "i" [] c = "J" -> "j" [] c = "K" -> "k" [] c = "L" -> "l"
      [] c = "M" -> "m" [] c = "N" -> "n" [] c = "O" -> "o" [] c = "P" -> "p"
      [] c = "Q" -> "q" [] c = "R" -> "r" [] c = "S" -> "s" [] c = "T" -> "t"
      [] c = "U" -> "u" [] c = "V" -> "v" [] c = "W" -> "w" [] c = "X" -> "x"
      [] c = "Y" -> "y" [] c = "Z" -> "z" [] OTHER -> c

\* String.prototype.toLowerCase
RECURSIVE ToLowerCase(_)
ToLowerCase(s) ==
    IF Len(s) = 0 THEN "" ELSE LowerOf(CharAt(s, 1)) \o ToLowerCase(Tail(s))

\* String.prototype.split on a set of one-character separators
\* ('/' , '.', or the class [-_]); empty pieces are kept, as in JavaScript.
RECURSIVE SplitFrom(_, _, _, _)
SplitFrom(s, seps, i, cur) ==
    IF i > Len(s) THEN <<cur>>
    ELSE IF CharAt(s, i) \in seps
         THEN <<cur>> \o SplitFrom(s, seps, i + 1, "")
         ELSE SplitFrom(s, seps, i + 1, cur \o CharAt(s, i))

Split(s, seps) == SplitFrom(s, seps, 1, "")

NonEmpty(w) == Len(w) > 0

\* Array.prototype.join
RECURSIVE Join(_, _)
Join(ss, sep) ==
    IF ss = <<>> THEN ""
    ELSE IF Len(ss) = 1 THEN ss[1]
    ELSE ss[1] \o sep \o Join(Tail(ss), sep)

DigitVal(c) ==
    CASE c = "0" -> 0 [] c = "1" -> 1 [] c = "2" -> 2 [] c = "3" -> 3
      [] c = "4" -> 4 [] c = "5" -> 5 [] c = "6" -> 6 [] c = "7" -> 7
      [] c = "8" -> 8 [] c = "9" -> 9

\* parseInt(digits, 10) of the run of digits that starts at position i
RECURSIVE ParseDigits(_, _, _)
ParseDigits(s, i, acc) ==
    IF i <= Len(s) /\ CharAt(s, i) \in DigitChars
    THEN ParseDigits(s, i + 1, 10 * acc + DigitVal(CharAt(s, i)))
    ELSE acc

-----------------------------------------------------------------------------
(* URL analyzer (analyzers/advanced/url-analyzer.js)                       *)
(*                                                                         *)
(* A URL string is given with the outcome of `new URL(string)`:            *)
(* [href, valid, protocol, hostname, pathname, search, searchParams];      *)
(* href = "" is a missing URL, valid = FALSE one that the parser rejects.  *)

When(c, x) == IF c THEN <<x>> ELSE <<>>
Pts(c, n) == IF c THEN n ELSE 0

\* pathname.split('/').filter(segment => segment.length > 0)
PathSegments(pathname) == SelectSeq(Split(pathname, {"/"}), NonEmpty)

analyzeProtocol_any_scheme_accepted(parsedUrl) ==
    [issues |-> <<>>, recommendations |-> <<>>, score |-> 100,
     protocol |-> parsedUrl.protocol]

analyzeProtocol(parsedUrl) ==
    IF parsedUrl.protocol = "https:"
    THEN [issues |-> <<>>, recommendations |-> <<>>, score |-> 100,
          protocol |-> parsedUrl.protocol]
    ELSE IF parsedUrl.protocol = "http:"
    THEN [issues |-> <<"Site uses HTTP instead of HTTPS">>,
          recommendations |->
              <<"Migrate to HTTPS for better security and SEO performance">>,
          score |-> 40,
          protocol |-> parsedUrl.protocol]
    ELSE [issues |-> <<"Unusual protocol: " \o parsedUrl.protocol>>,
          recommendations |-> <<"Use HTTPS protocol for website URLs">>,
          score |-> 20,
          protocol |-> parsedUrl.protocol]

analyzeDomain(parsedUrl) ==
    LET hostname == parsedUrl.hostname
        tooLong == Len(hostname) > 50
        hasWww == StartsWith(hostname, "www.")
        labels == Split(hostname, {"."})
        subdomainCount == Len(labels) - (IF hasWww THEN 2 ELSE 1)
        manySubdomains == subdomainCount > 1
        tld == labels[Len(labels)]
        commonTlds == {"com", "org", "net", "edu", "gov", "co", "io", "app"}
        domainPart ==
            Join(SubSeq(labels, IF hasWww THEN 2 ELSE 1, Len(labels) - 1), ".")
        manyHyphens == CountChar(domainPart, "-") > 1
        hasDigit == HasCharIn(domainPart, DigitChars)
        score == 100 - Pts(tooLong, 20) - Pts(manySubdomains, 10)
                     - Pts(manyHyphens, 15) - Pts(hasDigit, 5)
    IN [issues |->
            When(tooLong, "Domain name is excessively long")
            \o When(manySubdomains, "Multiple subdomains may dilute SEO value")
            \o When(manyHyphens,
                    "Multiple hyphens in domain name may look spammy"),
        recommendations |->
            When(tooLong,
                 "Consider using a shorter domain name for better memorability")
            \o When(manySubdomains,
                    "Consider consolidating content under fewer subdomains")
            \o When(tld \notin commonTlds,
                    "Consider using a common TLD like .com for better recognition")
            \o When(manyHyphens,
                    "Limit hyphens in domain names for better brand perception")
            \o When(hasDigit,
                    "Consider avoiding numbers in domain names for better memorability"),
        score |-> Max(0, score),
        hostname |-> hostname,
        hasWww |-> hasWww,
        subdomainCount |-> subdomainCount]

\* pathname.match(/\.([a-zA-Z0-9]+)$/): the extension, or "" without a match
FileExtension(pathname) ==
    LET dots == {i \in 1..Len(pathname) : CharAt(pathname, i) = "."}
    IN IF dots = {} THEN ""
       ELSE LET last == CHOOSE i \in dots : \A j \in dots : j <= i
                ext == SubSeq(pathname, last + 1, Len(pathname))
            IN IF Len(ext) > 0
                  /\ ~HasCharNotIn(ext, UpperChars \cup LowerChars \cup DigitChars)
               THEN ext ELSE ""

\* the words of wordFrequency whose count is larger than 1
RepeatedWords(words) ==
    {w \in SeqToSet(words) :
        Cardinality({i \in 1..Len(words) : words[i] = w}) > 1}

analyzePath(parsedUrl) ==
    LET pathname == parsedUrl.pathname
        hasTrailingSlash == Len(pathname) > 1 /\ EndsWith(pathname, "/")
        tooLong == Len(pathname) > 100
        segments == PathSegments(pathname)
        deep == Len(segments) > 4
        uppercase == HasCharIn(pathname, UpperChars)
        special == HasCharNotIn(pathname, WordChars \cup {"-", "/"})
        underscores == Includes(pathname, "_")
        ext == FileExtension(pathname)
        oddExtension == ext # "" /\ ext \notin {"html", "htm", "php"}
        segmentText == Join(segments, " ")
        words == SelectSeq(Split(segmentText, {"-", "_"}), NonEmpty)
        stuffing == Cardinality(RepeatedWords(words)) > 1
        score == 100 - Pts(tooLong, 20) - Pts(deep, 10) - Pts(uppercase, 15)
                     - Pts(special, 15) - Pts(underscores, 10)
                     - Pts(oddExtension, 5) - Pts(stuffing, 15)
    IN [issues |->
            When(tooLong, "URL path is excessively long")
            \o When(deep, "URL has deep folder structure (more than 4 levels)")
            \o When(uppercase, "URL contains uppercase letters")
            \o When(special, "URL contains special characters or spaces")
            \o When(underscores, "URL contains underscores")
            \o When(stuffing, "URL appears to contain repeated keywords"),
        recommendations |->
            When(tooLong,
                 "Shorten URL paths to be more user and search engine friendly")
            \o When(deep,
                    "Flatten site structure to keep important content closer to the root")
            \o When(uppercase,
                    "Use lowercase letters in URLs for consistency and to avoid duplicate content issues")
            \o When(special,
                    "Use only alphanumeric characters, hyphens, and slashes in URLs")
            \o When(underscores,
                    "Use hyphens instead of underscores to separate words in URLs")
            \o When(oddExtension,
                    "Consider using clean URLs without file extensions")
            \o When(stuffing, "Avoid keyword stuffing in URLs"),
        score |-> Max(0, score),
        pathname |-> pathname,
        segments |-> segments,
        depth |-> Len(segments),
        hasTrailingSlash |-> hasTrailingSlash]

\* the decimal digits of a natural number, as `${n}` prints it
RECURSIVE NatToString(_)
NatToString(n) ==
    LET d == CHOOSE c \in DigitChars : DigitVal(c) = n % 10
    IN IF n < 10 THEN d ELSE NatToString(n \div 10) \o d

\* Object.fromEntries(searchParams.entries()): the last value of a key wins
ParamsObject(searchParams) ==
    [k \in {searchParams[i][1] : i \in 1..Len(searchParams)} |->
        LET last == CHOOSE i \in 1..Len(searchParams) :
                       /\ searchParams[i][1] = k
                       /\ \A j \in 1..Len(searchParams) :
                             searchParams[j][1] = k => j <= i
        IN searchParams[last][2]]

analyzeQueryParameters(parsedUrl) ==
    LET searchParams == parsedUrl.searchParams
        keys == {searchParams[i][1] : i \in 1..Len(searchParams)}
        paramCount == Len(searchParams)
        hasParams == paramCount > 0
        many == hasParams /\ paramCount > 3
        trackingParams == {"utm_source", "utm_medium", "utm_campaign",
                           "utm_term", "utm_content", "gclid", "fbclid",
                           "ref", "source", "campaign"}
        tracking == hasParams /\ (trackingParams \cap keys) # {}
        suspiciousParams == {"sid", "session", "sessid", "id", "token", "auth"}
        suspicious ==
            hasParams /\ \E p \in suspiciousParams :
                            \E k \in keys : Includes(ToLowerCase(k), p)
        score == 100 - Pts(hasParams, 10)
                     - Pts(many, 10 * Min(5, paramCount - 3))
                     - Pts(tracking, 15) - Pts(suspicious, 20)
    IN [issues |->
            When(many, "URL has " \o NatToString(paramCount)
                       \o " query parameters, which may be excessive")
            \o When(tracking,
                    "URL contains tracking parameters which should be canonicalized")
            \o When(suspicious,
                    "URL may contain session IDs or dynamic parameters"),
        recommendations |->
            When(hasParams,
                 "Consider using path segments instead of query parameters for important content")
            \o When(many, "Limit the number of query parameters in URLs")
            \o When(tracking,
                    "Use canonical tags or parameter handling in Google Search Console for URLs with tracking parameters")
            \o When(suspicious,
                    "Avoid using session IDs or user-specific parameters in URLs to prevent duplicate content"),
        score |-> Max(0, score),
        queryString |-> parsedUrl.search,
        paramCount |-> paramCount,
        params |-> ParamsObject(searchParams)]

\* `/${segments.slice(0, -1).join('/')}/` or '/'
ParentPath(segments) ==
    IF Len(segments) > 1
    THEN "/" \o Join(SubSeq(segments, 1, Len(segments) - 1), "/") \o "/"
    ELSE "/"

Isolated_at_any_depth(depth, siblings) == siblings < 2

\* currentPathSegments.length > 1 && siblingUrls.length < 2
Isolated(depth, siblings) == depth > 1 /\ siblings < 2

analyzeCrawlPath(parsedUrl, pageUrls) ==
    IF Len(pageUrls) = 0
    THEN [issues |-> <<>>,
          recommendations |->
              <<"Provide multiple page URLs to enable crawl path analysis">>,
          score |-> 100,
          details |-> "No additional page URLs provided for crawl path analysis"]
    ELSE
    LET currentPath == parsedUrl.pathname
        currentPathSegments == PathSegments(currentPath)
        \* a page URL that does not parse counts with depth 0
        pathDepths ==
            [i \in 1..Len(pageUrls) |->
                IF pageUrls[i].valid
                THEN Len(PathSegments(pageUrls[i].pathname)) ELSE 0]
        \* currentDepth > sum / n + 2
        tooDeep == Len(currentPathSegments) * Len(pathDepths)
                       > SumSeq(pathDepths) + 2 * Len(pathDepths)
        parentPath == ParentPath(currentPathSegments)
        IsSibling(u) ==
            /\ u.valid
            /\ LET otherPathSegments == PathSegments(u.pathname)
               IN /\ Len(otherPathSegments) = Len(currentPathSegments)
                  /\ ParentPath(otherPathSegments) = parentPath
                  /\ u.pathname # currentPath
        siblingUrls == SelectSeq(pageUrls, IsSibling)
        isolated == Isolated(Len(currentPathSegments), Len(siblingUrls))
        hasTrailingSlash == Len(currentPath) > 1 /\ EndsWith(currentPath, "/")
        hasUppercase == HasCharIn(currentPath, UpperChars)
        IsInconsistent(u) ==
            /\ u.valid
            /\ \/ hasTrailingSlash
                    # (Len(u.pathname) > 1 /\ EndsWith(u.pathname, "/"))
               \/ hasUppercase # HasCharIn(u.pathname, UpperChars)
        inconsistentUrls == SelectSeq(pageUrls, IsInconsistent)
        inconsistent == Len(inconsistentUrls) > 0
        score == 100 - Pts(tooDeep, 15) - Pts(isolated, 5)
                     - Pts(inconsistent, 10)
    IN [issues |->
            When(tooDeep, "URL is significantly deeper than average site URLs")
            \o When(inconsistent,
                    "URL format inconsistency detected across site"),
        recommendations |->
            When(tooDeep,
                 "Consider restructuring content to be closer to the root")
            \o When(isolated,
                    "This URL has few sibling pages. Consider building out the content section.")
            \o When(inconsistent,
                    "Maintain consistent URL patterns across the site (trailing slashes, case)"),
        score |-> Max(0, score)]

\* the object analyzeUrl returns for the five analyses
\* Math.round((a + b + c + d + e) / 5)
MeanScore_protocol_twice(scores) ==
    RoundDiv(SumSeq(scores) + scores[1], Len(scores) + 1)

MeanScore(scores) == RoundDiv(SumSeq(scores), Len(scores))

UrlResult(parsedUrl, protocolAnalysis, domainAnalysis, pathAnalysis, queryAnalysis, crawlPathAnalysis) ==
       [url |-> parsedUrl.href,
        parsedUrl |-> [protocol |-> parsedUrl.protocol,
                       hostname |-> parsedUrl.hostname,
                       pathname |-> parsedUrl.pathname,
                       search |-> parsedUrl.search],
        protocolAnalysis |-> protocolAnalysis,
        domainAnalysis |-> domainAnalysis,
        pathAnalysis |-> pathAnalysis,
        queryAnalysis |-> queryAnalysis,
        crawlPathAnalysis |-> crawlPathAnalysis,
        issues |-> protocolAnalysis.issues \o domainAnalysis.issues
                   \o pathAnalysis.issues \o queryAnalysis.issues
                   \o crawlPathAnalysis.issues,
        recommendations |->
            protocolAnalysis.recommendations \o domainAnalysis.recommendations
            \o pathAnalysis.recommendations \o queryAnalysis.recommendations
            \o crawlPathAnalysis.recommendations,
        score |-> MeanScore(<<protocolAnalysis.score, domainAnalysis.score,
                              pathAnalysis.score, queryAnalysis.score,
                              crawlPathAnalysis.score>>)]

analyzeUrl(url, pageUrls) ==
    IF url.href = ""
    THEN [issues |-> <<"No URL provided for analysis">>,
          recommendations |-> <<"Provide a URL for analysis">>,
          score |-> 0]
    ELSE IF ~url.valid
    THEN [url |-> url.href,
          issues |-> <<"Invalid URL: Invalid URL">>,
          recommendations |-> <<"Provide a valid URL for analysis">>,
          score |-> 0]
    ELSE UrlResult(url, analyzeProtocol(url), analyzeDomain(url),
                   analyzePath(url), analyzeQueryParameters(url),
                   analyzeCrawlPath(url, pageUrls))

-----------------------------------------------------------------------------
(* HTTP headers analyzer (analyzers/advanced/headers-analyzer.js)          *)
(*                                                                         *)
(* A header object is the sequence of its <<name, value>> entries in       *)
(* insertion order, the order Object.keys enumerates; values are strings.  *)

\* the object built by assigning the entries in order: the last value wins
FromEntries(entries) ==
    [k \in {entries[i][1] : i \in 1..Len(entries)} |->
        LET last == CHOOSE i \in 1..Len(entries) :
                       /\ entries[i][1] = k
                       /\ \A j \in 1..Len(entries) : entries[j][1] = k => j <= i
        IN entries[last][2]]

\* normalizedHeaders[key.toLowerCase()] = headers[key], over Object.keys
NormalizeHeaders(headers) ==
    FromEntries([i \in 1..Len(headers) |->
                    <<ToLowerCase(headers[i][1]), headers[i][2]>>])

\* headers[k] || ''
HeaderOrEmpty(headers, k) == IF k \in DOMAIN headers THEN headers[k] ELSE ""

\* cacheControlValue.match(/max-age=(\d+)/): positions where the match can start
MaxAgeMatches(v) ==
    {i \in 1..(Len(v) - 8) :
        /\ SubSeq(v, i, i + 7) = "max-age="
        /\ CharAt(v, i + 8) \in DigitChars}

\* "If no issues found, the score is perfect" (lines 129, 214, 285)
ForcedScore_never(issues, points) == points

ForcedScore_always(issues, points) == 100

ForcedScore(issues, points) == IF Len(issues) = 0 THEN 100 ELSE points

analyzeCacheHeaders(headers) ==
    LET hasCacheControl == "cache-control" \in DOMAIN headers
        cacheControlValue == HeaderOrEmpty(headers, "cache-control")
        preventsCaching ==
            /\ hasCacheControl
            /\ \/ Includes(cacheControlValue, "no-store")
               \/ Includes(cacheControlValue, "no-cache")
        noMaxAge == /\ hasCacheControl /\ ~preventsCaching
                    /\ ~Includes(cacheControlValue, "max-age")
        matches == MaxAgeMatches(cacheControlValue)
        maxAgeMatch == /\ hasCacheControl /\ ~preventsCaching /\ ~noMaxAge
                       /\ matches # {}
        maxAge ==
            IF matches = {} THEN 0
            ELSE ParseDigits(cacheControlValue,
                             (CHOOSE i \in matches : \A j \in matches : i <= j) + 8,
                             0)
        shortPeriod == maxAgeMatch /\ maxAge < 86400
        isPublic == hasCacheControl /\ Includes(cacheControlValue, "public")
        noVisibility == /\ hasCacheControl /\ ~isPublic
                        /\ ~Includes(cacheControlValue, "private")
        noEtag == "etag" \notin DOMAIN headers
        noLastModified == "last-modified" \notin DOMAIN headers
        issues ==
            When(~hasCacheControl, "No Cache-Control header found")
            \o When(preventsCaching, "Cache-Control prevents caching entirely")
            \o When(noMaxAge, "Cache-Control has no max-age directive")
            \o When(shortPeriod, "Short cache period (" \o NatToString(maxAge)
                                 \o " seconds)")
            \o When(noEtag, "No ETag header found")
            \o When(noLastModified, "No Last-Modified header found")
        points == Pts(maxAgeMatch /\ ~shortPeriod, 50) + Pts(isPublic, 20)
                  + Pts(~noEtag, 15) + Pts(~noLastModified, 15)
        score == ForcedScore(issues, points)
    IN [issues |-> issues,
        recommendations |->
            When(~hasCacheControl,
                 "Add a Cache-Control header to improve resource caching")
            \o When(preventsCaching,
                    "Consider enabling caching for static assets to improve performance")
            \o When(noMaxAge,
                    "Add max-age directive to Cache-Control header for better caching control")
            \o When(shortPeriod,
                    "Consider increasing max-age for static resources to at least 1 day (86400)")
            \o When(noVisibility,
                    "Consider adding \"public\" directive to Cache-Control for static resources")
            \o When(noEtag,
                    "Add ETag header to enable conditional requests and save bandwidth")
            \o When(noLastModified,
                    "Add Last-Modified header to enable conditional requests"),
        score |-> Min(100, score),
        cacheControl |-> cacheControlValue,
        etag |-> OrNull(headers, "etag"),
        lastModified |-> OrNull(headers, "last-modified")]

\* the securityHeaders table, in the order Object.entries enumerates it
securityHeaders(headers) ==
    << [name |-> "strict-transport-security",
        present |-> "strict-transport-security" \in DOMAIN headers,
        recommendation |->
            "Add Strict-Transport-Security header to ensure secure connections",
        score |-> 15],
       [name |-> "content-security-policy",
        present |-> "content-security-policy" \in DOMAIN headers,
        recommendation |->
            "Add Content-Security-Policy header to prevent XSS attacks",
        score |-> 15],
       [name |-> "x-content-type-options",
        present |-> "x-content-type-options" \in DOMAIN headers,
        recommendation |->
            "Add X-Content-Type-Options: nosniff to prevent MIME type sniffing",
        score |-> 10],
       [name |-> "x-frame-options",
        present |-> "x-frame-options" \in DOMAIN headers,
        recommendation |->
            "Add X-Frame-Options header to prevent clickjacking",
        score |-> 10],
       [name |-> "x-xss-protection",
        present |-> "x-xss-protection" \in DOMAIN headers,
        recommendation |->
            "Add X-XSS-Protection header to enable browser XSS filtering",
        score |-> 10],
       [name |-> "referrer-policy",
        present |-> "referrer-policy" \in DOMAIN headers,
        recommendation |->
            "Add Referrer-Policy header to control referrer information",
        score |-> 10],
       [name |-> "feature-policy",
        present |-> \/ "feature-policy" \in DOMAIN headers
                    \/ "permissions-policy" \in DOMAIN headers,
        recommendation |->
            "Add Permissions-Policy header to control browser features",
        score |-> 10] >>

analyzeSecurityHeaders(headers) ==
    LET table == securityHeaders(headers)
        Missing(info) == ~info.present
        Present(info) == info.present
        missing == SelectSeq(table, Missing)
        present == SelectSeq(table, Present)
        hsts == HeaderOrEmpty(headers, "strict-transport-security") # ""
        issues ==
            [i \in 1..Len(missing) |-> "Missing " \o missing[i].name \o " header"]
            \o When(~hsts,
                    "No HSTS header found, site may not be enforcing HTTPS")
        points == SumSeq([i \in 1..Len(present) |-> present[i].score])
                  + Pts(hsts, 20)
        score == ForcedScore(issues, points)
    IN [issues |-> issues,
        recommendations |->
            [i \in 1..Len(missing) |-> missing[i].recommendation]
            \o When(~hsts,
                    "Implement HTTPS and add Strict-Transport-Security header"),
        score |-> Min(100, score),
        securityHeadersPresent |-> [i \in 1..Len(present) |-> present[i].name]]

analyzeContentHeaders(headers) ==
    LET hasContentType == "content-type" \in DOMAIN headers
        contentTypeValue == HeaderOrEmpty(headers, "content-type")
        noCharset == hasContentType /\ ~Includes(contentTypeValue, "charset=")
        notUtf8 == /\ hasContentType /\ ~noCharset
                   /\ ~Includes(ToLowerCase(contentTypeValue), "utf-8")
        hasLanguage == "content-language" \in DOMAIN headers
        hasRobots == "x-robots-tag" \in DOMAIN headers
        noindex == hasRobots /\ Includes(headers["x-robots-tag"], "noindex")
        issues ==
            When(~hasContentType, "No Content-Type header found")
            \o When(noCharset,
                    "Content-Type header has no charset specification")
            \o When(notUtf8, "Content-Type charset is not UTF-8")
            \o When(~hasLanguage, "No Content-Language header found")
            \o When(noindex, "X-Robots-Tag prevents indexing")
        points == Pts(hasContentType, 40)
                  + Pts(hasContentType /\ ~noCharset /\ ~notUtf8, 20)
                  + Pts(hasLanguage, 20) + Pts(hasRobots, 20)
        score == ForcedScore(issues, points)
    IN [issues |-> issues,
        recommendations |->
            When(~hasContentType,
                 "Add Content-Type header to specify the MIME type")
            \o When(noCharset,
                    "Add charset to Content-Type header (e.g., text/html; charset=UTF-8)")
            \o When(notUtf8,
                    "Use UTF-8 charset for better international character support")
            \o When(~hasLanguage,
                    "Add Content-Language header to specify the language of your content")
            \o When(~hasRobots,
                    "Consider using X-Robots-Tag header for more granular indexing control")
            \o When(noindex,
                    "Remove \"noindex\" from X-Robots-Tag if you want the page to be indexed"),
        score |-> Min(100, score),
        contentType |-> OrNull(headers, "content-type"),
        contentLanguage |-> OrNull(headers, "content-language"),
        xRobotsTag |-> OrNull(headers, "x-robots-tag")]

\* lines 348 and 353: 20 more for a Vary header that names Accept-Encoding,
\* then the cap
CompressionScore_uncapped(base, varyOk) == base + Pts(varyOk, 20)

CompressionScore(base, varyOk) == Min(100, base + Pts(varyOk, 20))

analyzeCompression(headers) ==
    LET encodingHeader == HeaderOrEmpty(headers, "content-encoding")
        noEncoding == encodingHeader = ""
        br == ~noEncoding /\ Includes(encodingHeader, "br")
        gzip == ~noEncoding /\ ~br /\ Includes(encodingHeader, "gzip")
        deflate == /\ ~noEncoding /\ ~br /\ ~gzip
                   /\ Includes(encodingHeader, "deflate")
        unknown == ~noEncoding /\ ~br /\ ~gzip /\ ~deflate
        noVary == "vary" \notin DOMAIN headers
        badVary == ~noVary /\ ~Includes(headers["vary"], "Accept-Encoding")
        base == IF br THEN 100 ELSE IF gzip THEN 80 ELSE IF deflate THEN 70
                ELSE IF unknown THEN 50 ELSE 0
    IN [issues |->
            When(noEncoding,
                 "No Content-Encoding header found, compression may not be enabled")
            \o When(unknown, "Unknown compression method: " \o encodingHeader)
            \o When(noVary, "No Vary header found")
            \o When(badVary, "Vary header does not include Accept-Encoding"),
        recommendations |->
            When(noEncoding,
                 "Enable GZIP or Brotli compression to reduce page size and improve load times")
            \o When(gzip,
                    "Consider using Brotli compression instead of GZIP for better compression ratios")
            \o When(deflate,
                    "Consider using Brotli or GZIP compression instead of deflate")
            \o When(unknown,
                    "Use standard compression methods like Brotli or GZIP")
            \o When(noVary,
                    "Add Vary: Accept-Encoding header when using compression")
            \o When(badVary,
                    "Update Vary header to include Accept-Encoding when using compression"),
        score |-> CompressionScore(base, ~noVary /\ ~badVary),
        contentEncoding |-> OrNull(headers, "content-encoding"),
        vary |-> OrNull(headers, "vary")]

\* the object analyzeHeaders returns for the four analyses
HeadersResult(normalizedHeaders, cacheAnalysis, securityAnalysis, contentAnalysis, compressionAnalysis) ==
       [headers |-> normalizedHeaders,
        cacheAnalysis |-> cacheAnalysis,
        securityAnalysis |-> securityAnalysis,
        contentAnalysis |-> contentAnalysis,
        compressionAnalysis |-> compressionAnalysis,
        issues |-> cacheAnalysis.issues \o securityAnalysis.issues
                   \o contentAnalysis.issues \o compressionAnalysis.issues,
        recommendations |->
            cacheAnalysis.recommendations \o securityAnalysis.recommendations
            \o contentAnalysis.recommendations
            \o compressionAnalysis.recommendations,
        score |-> RoundDiv(cacheAnalysis.score + securityAnalysis.score
                           + contentAnalysis.score + compressionAnalysis.score,
                           4)]

\* the analyses of the normalized headers
AnalyzeNormalized(normalizedHeaders) ==
    HeadersResult(normalizedHeaders,
                  analyzeCacheHeaders(normalizedHeaders),
                  analyzeSecurityHeaders(normalizedHeaders),
                  analyzeContentHeaders(normalizedHeaders),
                  analyzeCompression(normalizedHeaders))

analyzeHeaders(headers) ==
    IF Len(headers) = 0
    THEN [issues |-> <<"No headers provided for analysis">>,
          recommendations |->
              <<"Ensure HTTP headers are properly captured and provided for analysis">>,
          score |-> 0]
    ELSE AnalyzeNormalized(NormalizeHeaders(headers))

-----------------------------------------------------------------------------
(* Social media analyzer (analyzers/advanced/social-analyzer.js)           *)
(*                                                                         *)
(* A document is a record of what the selectors of the analyzers can see:  *)
(*   metas    the <meta> elements in document order, each                  *)
(*            [attr, key, content] for <meta attr="key" content="...">,    *)
(*   anchors  the <a href> elements in document order, each                *)
(*            [href, target, text, icon, hidden, inHeader, inFooter,       *)
(*            inMain],                                                     *)
(*   canonical, title   Some(text) or JSNull when the element is absent,   *)
(*   mainContent        an element matching the main-content selectors     *)
(*                      exists,                                            *)
(*   shareHints, shareCounts   elements matching the share / count class   *)
(*                      selectors exist.                                   *)

\* !value for a nullable string
Falsy(x) == x = JSNull \/ x = JSUndefined \/ x.v = ""
Truthy(x) == ~Falsy(x)

\* String.prototype.trim, for blanks
RECURSIVE TrimStart(_)
TrimStart(s) == IF Len(s) > 0 /\ CharAt(s, 1) = " " THEN TrimStart(Tail(s)) ELSE s
RECURSIVE TrimEnd(_)
TrimEnd(s) ==
    IF Len(s) > 0 /\ CharAt(s, Len(s)) = " "
    THEN TrimEnd(SubSeq(s, 1, Len(s) - 1)) ELSE s
Trim(s) == TrimEnd(TrimStart(s))

\* encodeURIComponent on printable ASCII
EncodeChar(c) ==
    CASE c = " " -> "%20" [] c = "\"" -> "%22" [] c = "#" -> "%23"
      [] c = "$" -> "%24" [] c = "%" -> "%25" [] c = "&" -> "%26"
      [] c = "+" -> "%2B" [] c = "," -> "%2C" [] c = "/" -> "%2F"
      [] c = ":" -> "%3A" [] c = ";" -> "%3B" [] c = "<" -> "%3C"
      [] c = "=" -> "%3D" [] c = ">" -> "%3E" [] c = "?" -> "%3F"
      [] c = "@" -> "%40" [] c = "[" -> "%5B" [] c = "\\" -> "%5C"
      [] c = "]" -> "%5D" [] c = "^" -> "%5E"
      [] c = "{" -> "%7B" [] c = "|" -> "%7C" [] c = "}" -> "%7D"
      [] OTHER -> c
RECURSIVE encodeURIComponent(_)
encodeURIComponent(s) ==
    IF Len(s) = 0 THEN ""
    ELSE EncodeChar(CharAt(s, 1)) \o encodeURIComponent(Tail(s))

\* document.querySelectorAll of the meta elements whose attr starts with prefix
MetasWithPrefix(document, attr, prefix) ==
    LET Match(m) == m.attr = attr /\ StartsWith(m.key, prefix)
    IN SelectSeq(document.metas, Match)

getMetaContent(document, attr, key) ==
    LET Match(m) == m.attr = attr /\ m.key = key
        found == SelectSeq(document.metas, Match)
    IN IF Len(found) = 0 THEN JSNull ELSE Some(found[1].content)

\* the host of an absolute http(s) URL: up to the first "/", "?" or "#"
RECURSIVE HostPrefix(_)
HostPrefix(s) ==
    IF Len(s) = 0 \/ CharAt(s, 1) \in {"/", "?", "#"} THEN ""
    ELSE CharAt(s, 1) \o HostPrefix(Tail(s))

\* new URL(url) succeeds for an http(s) URL: the host is not empty and has
\* no code point the URL parser forbids in a host
UrlParses(url) ==
    LET rest == IF StartsWith(url, "https://")
                THEN SubSeq(url, 9, Len(url)) ELSE SubSeq(url, 8, Len(url))
        host == HostPrefix(rest)
    IN host # "" /\ ~HasCharIn(host, {" ", "<", ">", "^", "|", "[", "]"})

isValidUrl(url) ==
    /\ Truthy(url)
    /\ (StartsWith(url.v, "http://") \/ StartsWith(url.v, "https://"))
    /\ UrlParses(url.v)

isElementInHeader(element, document) == element.inHeader
isElementInFooter(element, document) == element.inFooter
isElementHidden(element) == element.hidden
findMainContentElement(document) == document.mainContent

\* the rows of an essentialTags table that have no value / a value
MissingTags(tags) == LET M(t) == Falsy(t.value) IN SelectSeq(tags, M)
PresentTags(tags) == LET P(t) == Truthy(t.value) IN SelectSeq(tags, P)

analyzeOpenGraph(document) ==
    LET ogTags == MetasWithPrefix(document, "property", "og:")
        ogData ==
            [title |-> getMetaContent(document, "property", "og:title"),
             description |-> getMetaContent(document, "property", "og:description"),
             image |-> getMetaContent(document, "property", "og:image"),
             url |-> getMetaContent(document, "property", "og:url"),
             type |-> getMetaContent(document, "property", "og:type"),
             siteName |-> getMetaContent(document, "property", "og:site_name"),
             locale |-> getMetaContent(document, "property", "og:locale"),
             allTags |-> [i \in 1..Len(ogTags) |->
                             [property |-> ogTags[i].key,
                              content |-> ogTags[i].content]]]
        essentialTags ==
            << [name |-> "og:title", value |-> ogData.title, score |-> 20,
                recommendation |->
                    "Add og:title meta tag for better social sharing"],
               [name |-> "og:description", value |-> ogData.description,
                score |-> 15,
                recommendation |->
                    "Add og:description meta tag for better social sharing"],
               [name |-> "og:image", value |-> ogData.image, score |-> 20,
                recommendation |->
                    "Add og:image meta tag for better social sharing"],
               [name |-> "og:url", value |-> ogData.url, score |-> 10,
                recommendation |->
                    "Add og:url meta tag to specify the canonical URL for the page"],
               [name |-> "og:type", value |-> ogData.type, score |-> 10,
                recommendation |->
                    "Add og:type meta tag to specify the type of content (e.g., website, article)"] >>
        none == Len(ogTags) = 0
        missing == MissingTags(essentialTags)
        present == PresentTags(essentialTags)
        hasImage == ~none /\ Truthy(ogData.image)
        badImage == hasImage /\ ~isValidUrl(ogData.image)
        hasImageWidth == getMetaContent(document, "property", "og:image:width")
        hasImageHeight == getMetaContent(document, "property", "og:image:height")
        noDimensions == hasImage /\ (Falsy(hasImageWidth) \/ Falsy(hasImageHeight))
        score ==
            IF none THEN 0
            ELSE 20 + SumSeq([i \in 1..Len(present) |-> present[i].score])
                 + Pts(Truthy(ogData.siteName), 5) - Pts(badImage, 10)
                 + Pts(hasImage /\ ~noDimensions, 5)
    IN [issues |->
            IF none THEN <<"No Open Graph meta tags found">>
            ELSE [i \in 1..Len(missing) |->
                     "Missing " \o missing[i].name \o " meta tag"]
                 \o When(badImage, "og:image URL may not be valid or is relative"),
        recommendations |->
            IF none
            THEN <<"Add Open Graph meta tags for better social media sharing">>
            ELSE [i \in 1..Len(missing) |-> missing[i].recommendation]
                 \o When(Falsy(ogData.siteName),
                         "Add og:site_name meta tag for better brand recognition")
                 \o When(badImage, "Use absolute URLs for og:image meta tags")
                 \o When(noDimensions,
                         "Add og:image:width and og:image:height for better image rendering on social platforms"),
        score |-> Min(100, Max(0, score)),
        data |-> ogData]

analyzeTwitterCard(document) ==
    LET twitterTags == MetasWithPrefix(document, "name", "twitter:")
        twitterData ==
            [card |-> getMetaContent(document, "name", "twitter:card"),
             title |-> getMetaContent(document, "name", "twitter:title"),
             description |-> getMetaContent(document, "name", "twitter:description"),
             image |-> getMetaContent(document, "name", "twitter:image"),
             site |-> getMetaContent(document, "name", "twitter:site"),
             creator |-> getMetaContent(document, "name", "twitter:creator"),
             allTags |-> [i \in 1..Len(twitterTags) |->
                             [name |-> twitterTags[i].key,
                              content |-> twitterTags[i].content]]]
        essentialTags ==
            << [name |-> "twitter:card", value |-> twitterData.card,
                score |-> 20,
                recommendation |->
                    "Add twitter:card meta tag to specify the card type"],
               [name |-> "twitter:title", value |-> twitterData.title,
                score |-> 15,
                recommendation |->
                    "Add twitter:title meta tag for better Twitter sharing"],
               [name |-> "twitter:description",
                value |-> twitterData.description, score |-> 15,
                recommendation |->
                    "Add twitter:description meta tag for better Twitter sharing"],
               [name |-> "twitter:image", value |-> twitterData.image,
                score |-> 15,
                recommendation |->
                    "Add twitter:image meta tag for better Twitter sharing"] >>
        none == Len(twitterTags) = 0
        missing == MissingTags(essentialTags)
        present == PresentTags(essentialTags)
        validCardTypes == {"summary", "summary_large_image", "app", "player"}
        badCard == /\ ~none /\ Truthy(twitterData.card)
                   /\ twitterData.card.v \notin validCardTypes
        badImage == /\ ~none /\ Truthy(twitterData.image)
                    /\ ~isValidUrl(twitterData.image)
        hasOpenGraph == Len(MetasWithPrefix(document, "property", "og:")) > 0
        fallback == none /\ hasOpenGraph
        score ==
            IF none THEN Pts(fallback, 10)
            ELSE 20 + SumSeq([i \in 1..Len(present) |-> present[i].score])
                 + Pts(Truthy(twitterData.site), 5) - Pts(badCard, 10)
                 - Pts(badImage, 10)
    IN [issues |->
            IF none THEN <<"No Twitter Card meta tags found">>
            ELSE [i \in 1..Len(missing) |->
                     "Missing " \o missing[i].name \o " meta tag"]
                 \o (IF badCard
                     THEN <<"Unknown twitter:card value: " \o twitterData.card.v>>
                     ELSE <<>>)
                 \o When(badImage,
                         "twitter:image URL may not be valid or is relative"),
        recommendations |->
            (IF none
             THEN <<"Add Twitter Card meta tags for better Twitter sharing">>
             ELSE [i \in 1..Len(missing) |-> missing[i].recommendation]
                  \o When(Falsy(twitterData.site),
                          "Add twitter:site meta tag with your Twitter username")
                  \o When(badCard,
                          "Use a valid Twitter card type: summary, summary_large_image, app, or player")
                  \o When(badImage,
                          "Use absolute URLs for twitter:image meta tags"))
            \o When(fallback,
                    "Twitter Cards can fall back to Open Graph tags, but explicit Twitter Card tags are recommended"),
        score |-> Min(100, Max(0, score)),
        data |-> twitterData]

\* platform.patterns.some(pattern => href && href.includes(pattern))
MatchesAny(href, patterns) ==
    href # "" /\ \E pattern \in patterns : Includes(href, pattern)

socialPlatforms ==
    << [name |-> "Facebook", patterns |-> {"facebook.com", "fb.com"}],
       [name |-> "Twitter", patterns |-> {"twitter.com", "x.com"}],
       [name |-> "LinkedIn", patterns |-> {"linkedin.com"}],
       [name |-> "Instagram", patterns |-> {"instagram.com"}],
       [name |-> "YouTube", patterns |-> {"youtube.com", "youtu.be"}],
       [name |-> "Pinterest", patterns |-> {"pinterest.com"}],
       [name |-> "TikTok", patterns |-> {"tiktok.com"}],
       [name |-> "Reddit", patterns |-> {"reddit.com"}],
       [name |-> "Discord", patterns |-> {"discord.com", "discord.gg"}],
       [name |-> "Snapchat", patterns |-> {"snapchat.com"}] >>

sharingPatterns ==
    << [name |-> "Facebook",
        patterns |-> {"facebook.com/sharer", "facebook.com/share"}],
       [name |-> "Twitter",
        patterns |-> {"twitter.com/intent/tweet", "twitter.com/share"}],
       [name |-> "LinkedIn", patterns |-> {"linkedin.com/shareArticle"}],
       [name |-> "Pinterest", patterns |-> {"pinterest.com/pin/create"}],
       [name |-> "Email", patterns |-> {"mailto:"}],
       [name |-> "WhatsApp",
        patterns |-> {"api.whatsapp.com/send", "web.whatsapp.com/send"}],
       [name |-> "Telegram", patterns |-> {"t.me/share"}] >>

\* the links of each platform of a table, keyed by platform name
LinksByPlatform(links, platforms) ==
    [name \in {platforms[i].name : i \in 1..Len(platforms)} |->
        LET platform == CHOOSE q \in SeqToSet(platforms) : q.name = name
            Of(link) == MatchesAny(link.href, platform.patterns)
        IN SelectSeq(links, Of)]

\* the names of the platforms with at least one link, in table order
PlatformsWithLinks(byPlatform, platforms) ==
    LET names == [i \in 1..Len(platforms) |-> platforms[i].name]
        Linked(name) == Len(byPlatform[name]) > 0
    IN SelectSeq(names, Linked)

Hrefs(byPlatform) ==
    [name \in DOMAIN byPlatform |->
        [i \in 1..Len(byPlatform[name]) |-> byPlatform[name][i].href]]

analyzeSocialLinks(document, url) ==
    LET links == document.anchors
        IsSocial(link) ==
            \E i \in 1..Len(socialPlatforms) :
                MatchesAny(link.href, socialPlatforms[i].patterns)
        socialLinks == SelectSeq(links, IsSocial)
        platformLinks == LinksByPlatform(socialLinks, socialPlatforms)
        linkedPlatforms == PlatformsWithLinks(platformLinks, socialPlatforms)
        none == Len(socialLinks) = 0
        NotLinked(platform) == platform \notin SeqToSet(linkedPlatforms)
        missingCommonPlatforms ==
            SelectSeq(<<"Facebook", "Twitter", "LinkedIn", "Instagram">>, NotLinked)
        InHeader(link) == isElementInHeader(link, document)
        InFooter(link) == isElementInFooter(link, document)
        Visible(link) == ~isElementHidden(link)
        NewTab(link) == link.target = "_blank"
        Named(link) == Trim(link.text) # "" \/ link.icon
        placed == \/ Len(SelectSeq(socialLinks, InHeader)) > 0
                  \/ Len(SelectSeq(socialLinks, InFooter)) > 0
        someHidden == ~none /\ Len(SelectSeq(socialLinks, Visible)) < Len(socialLinks)
        notAllNewTab == Len(SelectSeq(socialLinks, NewTab)) < Len(socialLinks)
        someUnnamed == ~none /\ Len(SelectSeq(socialLinks, Named)) < Len(socialLinks)
        IsSharing(link) ==
            MatchesAny(link.href,
                       {"facebook.com/sharer", "twitter.com/intent/tweet",
                        "linkedin.com/shareArticle",
                        "pinterest.com/pin/create/button", "mailto:", "share",
                        "tweet"})
        sharingButtons == SelectSeq(links, IsSharing)
        score ==
            (IF none THEN 0
             ELSE Min(60, Len(linkedPlatforms) * 15) + Pts(placed, 20)
                  - Pts(someHidden, 10) + Pts(~notAllNewTab, 10)
                  - Pts(someUnnamed, 10))
            + Pts(Len(sharingButtons) > 0, 10)
    IN [issues |->
            When(none, "No social media links found on the page")
            \o When(someHidden, "Some social media links may be hidden")
            \o When(someUnnamed,
                    "Some social media links may not have visible text or icons"),
        recommendations |->
            (IF none
             THEN <<"Add links to your social media profiles for better connectivity">>
             ELSE (IF Len(missingCommonPlatforms) > 0
                   THEN <<"Consider adding links to these popular platforms: "
                          \o Join(missingCommonPlatforms, ", ")>>
                   ELSE <<>>)
                  \o When(~placed,
                          "Place social media links in header or footer for better visibility")
                  \o When(someHidden,
                          "Ensure social media links are visible to users")
                  \o When(notAllNewTab,
                          "Make social media links open in new tabs to prevent users from leaving your site")
                  \o When(someUnnamed,
                          "Add descriptive text or icons to social media links"))
            \o When(Len(sharingButtons) = 0,
                    "Consider adding social sharing buttons to make it easy for visitors to share your content"),
        score |-> Min(100, Max(0, score)),
        linkedPlatforms |-> linkedPlatforms,
        socialLinks |-> Hrefs(platformLinks)]

analyzeSocialSharing(document) ==
    LET links == document.anchors
        sharingButtons == LinksByPlatform(links, sharingPatterns)
        sharingOptions == PlatformsWithLinks(sharingButtons, sharingPatterns)
        none == Len(sharingOptions) = 0
        NotOffered(platform) == platform \notin SeqToSet(sharingOptions)
        missingCommonPlatforms ==
            SelectSeq(<<"Facebook", "Twitter", "LinkedIn", "Email">>, NotOffered)
        ogUrl == getMetaContent(document, "property", "og:url")
        pageUrl == IF Truthy(ogUrl) THEN ogUrl ELSE document.canonical
        IncludesPage(href) ==
            \/ Includes(href, encodeURIComponent(pageUrl.v))
            \/ Includes(href, "${url}")
            \/ Includes(href, "{url}")
        ValidFacebook(link) ==
            link.href # "" /\ Includes(link.href, "u=") /\ IncludesPage(link.href)
        ValidTwitter(link) ==
            link.href # "" /\ Includes(link.href, "url=") /\ IncludesPage(link.href)
        badFacebook ==
            /\ ~none /\ Truthy(pageUrl)
            /\ Len(sharingButtons["Facebook"]) > 0
            /\ Len(SelectSeq(sharingButtons["Facebook"], ValidFacebook)) = 0
        badTwitter ==
            /\ ~none /\ Truthy(pageUrl)
            /\ Len(sharingButtons["Twitter"]) > 0
            /\ Len(SelectSeq(sharingButtons["Twitter"], ValidTwitter)) = 0
        contentElement == findMainContentElement(document)
        shareButtonsInContent ==
            /\ contentElement
            /\ \E name \in DOMAIN sharingButtons :
                  \E i \in 1..Len(sharingButtons[name]) :
                      sharingButtons[name][i].inMain
        score ==
            (IF none THEN Pts(document.shareHints, 30)
             ELSE Min(60, Len(sharingOptions) * 15) - Pts(badFacebook, 10)
                  - Pts(badTwitter, 10) + Pts(document.shareCounts, 10))
            + Pts(shareButtonsInContent, 20)
    IN [issues |->
            When(none /\ ~document.shareHints,
                 "No social sharing buttons/links found")
            \o When(badFacebook,
                    "Facebook sharing links may not properly include the page URL")
            \o When(badTwitter,
                    "Twitter sharing links may not properly include the page URL"),
        recommendations |->
            (IF none
             THEN IF document.shareHints
                  THEN <<"Consider using standard social sharing links with proper URLs">>
                  ELSE <<"Add social sharing buttons to make content easily shareable">>
             ELSE (IF Len(missingCommonPlatforms) > 0
                   THEN <<"Consider adding sharing options for: "
                          \o Join(missingCommonPlatforms, ", ")>>
                   ELSE <<>>)
                  \o When(badFacebook,
                          "Ensure Facebook sharing links include the proper page URL")
                  \o When(badTwitter,
                          "Ensure Twitter sharing links include the proper page URL")
                  \o When(~document.shareCounts,
                          "Consider displaying share counts for social proof"))
            \o When(contentElement /\ ~shareButtonsInContent,
                    "Place sharing buttons near your main content for better visibility"),
        score |-> Min(100, Max(0, score)),
        sharingOptions |-> sharingOptions,
        shareButtons |-> Hrefs(sharingButtons)]

\* the object analyzeSocialMedia returns for the four analyses
SocialMediaResult(openGraphAnalysis, twitterCardAnalysis, socialLinksAnalysis, socialSharingAnalysis) ==
       [openGraphAnalysis |-> openGraphAnalysis,
        twitterCardAnalysis |-> twitterCardAnalysis,
        socialLinksAnalysis |-> socialLinksAnalysis,
        socialSharingAnalysis |-> socialSharingAnalysis,
        issues |-> openGraphAnalysis.issues \o twitterCardAnalysis.issues
                   \o socialLinksAnalysis.issues \o socialSharingAnalysis.issues,
        recommendations |->
            openGraphAnalysis.recommendations
            \o twitterCardAnalysis.recommendations
            \o socialLinksAnalysis.recommendations
            \o socialSharingAnalysis.recommendations,
        score |-> RoundDiv(openGraphAnalysis.score + twitterCardAnalysis.score
                           + socialLinksAnalysis.score
                           + socialSharingAnalysis.score, 4)]

analyzeSocialMedia(document, url) ==
    SocialMediaResult(analyzeOpenGraph(document),
                      analyzeTwitterCard(document),
                      analyzeSocialLinks(document, url),
                      analyzeSocialSharing(document))

-----------------------------------------------------------------------------
(* Content analyzer (analyzers/advanced/content-analyzer.js)               *)
(*                                                                         *)
(* The document also carries bodyText (the text of the body once scripts   *)
(* and styles are removed), paragraphs (the text of each <p>), lists and   *)
(* listItems (the numbers of ul/ol and li elements).                       *)

WhitespaceChars == {" ", "\t", "\n"}

\* s.split(/\s+/).filter(w => w.length > 0)
Words(s) == SelectSeq(Split(s, WhitespaceChars), NonEmpty)

\* text.replace(/\s+/g, ' ').trim()
CollapseWhitespace(text) == Join(Words(text), " ")

\* Number.prototype.toFixed(f) of the quotient num / den >= 0, f <= 2:
\* the closest decimal with f digits, the larger one of two equally close
RECURSIVE PadLeft(_, _)
PadLeft(digits, width) ==
    IF Len(digits) >= width THEN digits ELSE PadLeft("0" \o digits, width)

Pow10(f) == IF f = 0 THEN 1 ELSE IF f = 1 THEN 10 ELSE 100

ToFixed(num, den, f) ==
    LET whole == num \div den
        rest == num % den
        scaled == (2 * rest * Pow10(f) + den) \div (2 * den)
        carry == scaled \div Pow10(f)
        frac == scaled % Pow10(f)
    IN IF f = 0 THEN NatToString(whole + carry)
       ELSE NatToString(whole + carry) \o "." \o PadLeft(NatToString(frac), f)

\* word.replace(/(?:[^laeiouy]|ed|[^laeiouy]e)$/, ''): the leftmost match wins
StripEnding(word) ==
    LET n == Len(word)
        keep == {"l", "a", "e", "i", "o", "u", "y"}
    IN IF n >= 2 /\ (SubSeq(word, n - 1, n) = "ed"
                     \/ (CharAt(word, n - 1) \notin keep /\ CharAt(word, n) = "e"))
       THEN SubSeq(word, 1, n - 2)
       ELSE IF n >= 1 /\ CharAt(word, n) \notin keep
       THEN SubSeq(word, 1, n - 1)
       ELSE word

\* (word.match(/[aeiouy]{1,2}/g) || []).length, scanning from position i
RECURSIVE VowelGroups(_, _)
VowelGroups(word, i) ==
    LET vowels == {"a", "e", "i", "o", "u", "y"}
    IN IF i > Len(word) THEN 0
       ELSE IF CharAt(word, i) \notin vowels THEN VowelGroups(word, i + 1)
       ELSE IF i < Len(word) /\ CharAt(word, i + 1) \in vowels
       THEN 1 + VowelGroups(word, i + 2)
       ELSE 1 + VowelGroups(word, i + 1)

\* the contribution of one word of countSyllables
WordSyllables(raw) ==
    LET IsLetter(i) == CharAt(raw, i) \in LowerChars
        letters == Join([i \in 1..Len(raw) |->
                            IF IsLetter(i) THEN CharAt(raw, i) ELSE ""], "")
        stripped == StripEnding(letters)
        word == IF StartsWith(stripped, "y")
                THEN SubSeq(stripped, 2, Len(stripped)) ELSE stripped
        groups == VowelGroups(word, 1)
    IN IF letters = "" THEN 0
       ELSE IF Len(letters) <= 3 THEN 1
       ELSE IF groups = 0 THEN 1 ELSE groups

countSyllables(text) ==
    LET words == Split(ToLowerCase(text), WhitespaceChars)
    IN SumSeq([i \in 1..Len(words) |-> WordSyllables(words[i])])

SentenceEnds == {".", "!", "?"}

Sentences_unfiltered(cleanText) == Split(cleanText, SentenceEnds)

\* cleanText.split(/[.!?]+/).filter(s => s.trim().length > 0)
Sentences(cleanText) ==
    LET NotBlank(x) == Trim(x) # ""
    IN SelectSeq(Split(cleanText, SentenceEnds), NotBlank)

calculateReadability(text) ==
    LET cleanText == CollapseWhitespace(text)
        sentences == Sentences(cleanText)
        words == Words(cleanText)
        syllables == countSyllables(cleanText)
        S == Max(Len(sentences), 1)
        W == Max(Len(words), 1)
        \* fleschReadingEase = easeNum / easeDen, fleschKincaidGrade = gradeNum / gradeDen
        easeDen == 1000 * S * W
        easeNum == 206835 * S * W - 1015 * Len(words) * W - 84600 * syllables * S
        gradeDen == 100 * S * W
        gradeNum == 39 * Len(words) * W + 1180 * syllables * S - 1559 * S * W
        readabilityLevel ==
            IF easeNum >= 90 * easeDen THEN "Very Easy"
            ELSE IF easeNum >= 80 * easeDen THEN "Easy"
            ELSE IF easeNum >= 70 * easeDen THEN "Fairly Easy"
            ELSE IF easeNum >= 60 * easeDen THEN "Standard"
            ELSE IF easeNum >= 50 * easeDen THEN "Fairly Difficult"
            ELSE IF easeNum >= 30 * easeDen THEN "Difficult"
            ELSE "Very Difficult"
    IN [statistics |->
            [sentenceCount |-> Len(sentences),
             wordCount |-> Len(words),
             syllableCount |-> syllables,
             averageWordsPerSentence |-> ToFixed(Len(words), S, 1),
             averageSyllablesPerWord |-> ToFixed(syllables, W, 1)],
        scores |->
            [fleschReadingEase |->
                 ToFixed(Max(0, Min(100 * easeDen, easeNum)), easeDen, 1),
             fleschKincaidGrade |-> ToFixed(Max(0, gradeNum), gradeDen, 1),
             readabilityLevel |-> readabilityLevel]]

\* ((count / total) * 100).toFixed(2) + '%'
Density(count, total) ==
    IF total = 0 THEN (IF count = 0 THEN "NaN%" ELSE "Infinity%")
    ELSE ToFixed(100 * count, total, 2) \o "%"

\* text.toLowerCase().replace(/[^\w\s]/g, ' ')
CleanForKeywords(text) ==
    LET lower == ToLowerCase(text)
        Keep(c) == c \in WordChars \cup WhitespaceChars
    IN Join([i \in 1..Len(lower) |->
                IF Keep(CharAt(lower, i)) THEN CharAt(lower, i) ELSE " "], "")

\* an own property name that is an array index: those are enumerated first
IsArrayIndex(w) ==
    /\ Len(w) > 0 /\ ~HasCharNotIn(w, DigitChars)
    /\ (Len(w) = 1 \/ CharAt(w, 1) # "0")

\* Object.entries(wordCounts): the keys in property order, without repeats
WordCountKeys(words) ==
    LET First(i) == \A j \in 1..(i - 1) : words[j] # words[i]
        firsts == [i \in 1..Len(words) |->
                      IF Len(words[i]) >= 2 /\ First(i) THEN <<words[i]>> ELSE <<>>]
        keys == Concat(firsts)
        Indexed(w) == IsArrayIndex(w)
        Named(w) == ~IsArrayIndex(w)
        indices == SelectSeq(keys, Indexed)
        Rank(w) == Cardinality({v \in SeqToSet(indices) :
                                   ParseDigits(v, 1, 0) < ParseDigits(w, 1, 0)})
        sortedIndices ==
            [r \in 1..Len(indices) |->
                CHOOSE w \in SeqToSet(indices) : Rank(w) = r - 1]
    IN sortedIndices \o SelectSeq(keys, Named)

Occurrences(words, w) == Cardinality({i \in 1..Len(words) : words[i] = w})

\* entries.sort((a, b) => b[1] - a[1]): stable, larger counts first
SortByCount(keys, words) ==
    LET top == Len(words)
    IN Concat([k \in 1..top |->
                  LET Has(w) == Occurrences(words, w) = top + 1 - k
                  IN SelectSeq(keys, Has)])

\* the keyword has no character that is special in a regular expression
PlainKeyword(keyword) == ~HasCharNotIn(keyword, WordChars \cup {" "})

\* new RegExp(`\\b${keywordLower}\\b`, 'g') throws a SyntaxError:
\* a quantifier with nothing to repeat or an unterminated group or class
RegExpThrows(keyword) ==
    \/ \E i \in 1..Len(keyword) :
          /\ CharAt(keyword, i) \in {"+", "*"}
          /\ (i = 1 \/ CharAt(keyword, i - 1) \in {"+", "*", "?", "("})
    \/ StartsWith(keyword, "?")
    \/ CountChar(keyword, "(") # CountChar(keyword, ")")
    \/ (CountChar(keyword, "[") > 0 /\ CountChar(keyword, "]") = 0)

IsWordAt(s, i) == i >= 1 /\ i <= Len(s) /\ CharAt(s, i) \in WordChars

\* (cleanText.match(/\bkeyword\b/g) || []).length for a plain keyword,
\* counting from offset p
RECURSIVE CountMatches(_, _, _)
CountMatches(s, keyword, p) ==
    LET n == Len(keyword)
        Boundary(q) == IsWordAt(s, q) # IsWordAt(s, q + 1)
        here == /\ p + n <= Len(s)
                /\ SubSeq(s, p + 1, p + n) = keyword
                /\ Boundary(p) /\ Boundary(p + n)
    IN IF p > Len(s) THEN 0
       ELSE IF here THEN 1 + CountMatches(s, keyword, p + Max(n, 1))
       ELSE CountMatches(s, keyword, p + 1)

\* targetKeywords is the array of keyword strings
analyzeKeywordsThrows(text, targetKeywords) ==
    \E i \in 1..Len(targetKeywords) : RegExpThrows(ToLowerCase(targetKeywords[i]))

analyzeKeywords(text, targetKeywords) ==
    LET cleanText == CleanForKeywords(text)
        words == Words(cleanText)
        sorted == SortByCount(WordCountKeys(words), words)
        top20 == SubSeq(sorted, 1, Min(20, Len(sorted)))
        sortedWords ==
            [i \in 1..Len(top20) |->
                [word |-> top20[i],
                 count |-> Occurrences(words, top20[i]),
                 density |-> Density(Occurrences(words, top20[i]), Len(words))]]
        stopWords == {"the", "and", "a", "to", "of", "in", "is", "it", "that",
                      "you", "for", "on", "with", "as", "are", "be", "this",
                      "was", "have", "or", "at", "not", "your"}
        NotStop(item) == item.word \notin stopWords
        relevant == SelectSeq(sortedWords, NotStop)
        targetKeywordAnalysis ==
            [i \in 1..Len(targetKeywords) |->
                LET count == CountMatches(cleanText,
                                          ToLowerCase(targetKeywords[i]), 0)
                IN [keyword |-> targetKeywords[i],
                    count |-> count,
                    density |-> Density(count, Len(words)),
                    sufficient |-> count > 0]]
    IN [wordCount |-> Len(words),
        topWords |-> sortedWords,
        relevantKeywords |-> SubSeq(relevant, 1, Min(10, Len(relevant))),
        targetKeywords |-> IF Len(targetKeywordAnalysis) > 0
                           THEN Some(targetKeywordAnalysis) ELSE JSUndefined]

getRatingForStructure(avgNum, avgDen, longParagraphs, paragraphCount, lists) ==
    \* avgParagraphLength is the quotient avgNum / avgDen
    IF avgNum > 150 * avgDen /\ longParagraphs > 5 /\ lists = 0 THEN "Poor"
    ELSE IF avgNum > 100 * avgDen /\ longParagraphs > 2 THEN "Below Average"
    ELSE IF avgNum < 80 * avgDen /\ paragraphCount > 3 /\ lists > 0 THEN "Good"
    ELSE IF avgNum < 60 * avgDen /\ paragraphCount > 5 /\ lists > 1 THEN "Excellent"
    ELSE "Average"

getStructureRecommendations(avgNum, avgDen, longParagraphs, paragraphCount, lists) ==
    When(avgNum > 100 * avgDen,
         "Consider breaking long paragraphs into shorter ones for better readability.")
    \o When(longParagraphs > 3,
            "Too many long paragraphs detected. Web users prefer shorter paragraphs.")
    \o When(paragraphCount < 3,
            "Add more paragraphs to properly organize your content.")
    \o When(lists = 0,
            "Consider using bulleted or numbered lists to improve content scanability.")

\* lines 135-157 of analyzeContentStructure, for the word counts of the
\* paragraphs and the numbers of lists and list items
ContentStructureOf(paragraphLengths, lists, listItems) ==
    LET paragraphCount == Len(paragraphLengths)
        total == SumSeq(paragraphLengths)
        count == Max(paragraphCount, 1)
        Long(len) == len > 150
        Short(len) == len <= 50
        longParagraphs == Len(SelectSeq(paragraphLengths, Long))
        shortParagraphs == Len(SelectSeq(paragraphLengths, Short))
    IN [paragraphCount |-> paragraphCount,
        averageParagraphLength |-> RoundDiv(total, count),
        longParagraphs |-> longParagraphs,
        shortParagraphs |-> shortParagraphs,
        listCount |-> lists,
        listItemCount |-> listItems,
        structureRating |->
            getRatingForStructure(total, count, longParagraphs, paragraphCount,
                                  lists),
        recommendations |->
            getStructureRecommendations(total, count, longParagraphs,
                                        paragraphCount, lists)]

analyzeContentStructure(document) ==
    ContentStructureOf([i \in 1..Len(document.paragraphs) |->
                           Len(Words(Trim(document.paragraphs[i])))],
                       document.lists, document.listItems)

\* htmlSize is htmlContent.length
analyzeContentRatio(htmlSize, textContent) ==
    LET textSize == Len(textContent)
        \* ratio = 100 * textSize / htmlSize
        rating ==
            \* NaN and Infinity compare false with every bound
            IF htmlSize = 0 THEN "Excellent"
            ELSE IF 100 * textSize < 10 * htmlSize THEN "Poor"
            ELSE IF 100 * textSize < 25 * htmlSize THEN "Average"
            ELSE IF 100 * textSize < 50 * htmlSize THEN "Good"
            ELSE "Excellent"
    IN [htmlSize |-> htmlSize,
        textSize |-> textSize,
        ratio |-> Density(textSize, htmlSize),
        rating |-> rating]

\* extractTextContent(document.body) of index.js
extractTextContent(document) == CollapseWhitespace(document.bodyText)

-----------------------------------------------------------------------------
(* Structured data analyzer (analyzers/advanced/schema-analyzer.js)        *)
(*                                                                         *)
(* A parsed JSON value is a tagged record: JNull, JStr(s), JNum(n),        *)
(* JBool(b), JArr(items), JObj(entries) with entries the sequence of       *)
(* <<key, value>> members.  The document carries jsonld, the sequence of   *)
(* <script type="application/ld+json"> elements, each                      *)
(* [parses, data, message] for the outcome of JSON.parse on its text, and  *)
(* microdata, the sequence of [itemtype, properties] of the itemscope      *)
(* elements (itemtype "" when the attribute is absent).                    *)

JNull == [t |-> "null"]
JUndefined == [t |-> "undefined"]
JStr(s) == [t |-> "string", v |-> s]
JNum(n) == [t |-> "number", n |-> n]
JBool(b) == [t |-> "boolean", b |-> b]
JArr(items) == [t |-> "array", items |-> items]
JObj(entries) == [t |-> "object", entries |-> entries]

\* !value is false
JTruthy(x) ==
    /\ x.t \notin {"null", "undefined"}
    /\ ~(x.t = "string" /\ x.v = "")
    /\ ~(x.t = "number" /\ x.n = 0)
    /\ ~(x.t = "boolean" /\ ~x.b)

\* data[key] for a value other than null; the last member of a name wins
JGet(data, key) ==
    IF data.t = "object" /\ \E i \in 1..Len(data.entries) : data.entries[i][1] = key
    THEN FromEntries(data.entries)[key]
    ELSE JUndefined

\* Object.keys(data) of an object
JKeys(data) ==
    LET First(i) == \A j \in 1..(i - 1) : data.entries[j][1] # data.entries[i][1]
    IN Concat([i \in 1..Len(data.entries) |->
                  IF First(i) THEN <<data.entries[i][1]>> ELSE <<>>])

\* value || fallback, as a string, for a value that is a string when truthy
JStringOr(x, fallback) == IF JTruthy(x) THEN x.v ELSE fallback

\* item['@type'] throws a TypeError on null
getJsonLdTypeThrows(data) ==
    /\ JTruthy(data) /\ data.t = "array"
    /\ \E i \in 1..Len(data.items) : data.items[i].t = "null"

getJsonLdType(data) ==
    IF ~JTruthy(data) THEN "Unknown"
    ELSE IF data.t = "array"
    THEN Join([i \in 1..Len(data.items) |->
                  JStringOr(JGet(data.items[i], "@type"), "Unspecified")], ", ")
    ELSE JStringOr(JGet(data, "@type"), "Unspecified")

\* data['@context'].includes is not a function
validateJsonLdThrows(data) ==
    /\ JTruthy(data)
    /\ JTruthy(JGet(data, "@context"))
    /\ JGet(data, "@context").t \notin {"string", "array"}

\* data['@context'].includes('schema.org') on a string or an array
ContextIncludes(context, what) ==
    IF context.t = "string" THEN Includes(context.v, what)
    ELSE \E i \in 1..Len(context.items) : context.items[i] = JStr(what)

validateJsonLd(data) ==
    IF ~JTruthy(data)
    THEN [valid |-> FALSE, issues |-> <<"Empty JSON-LD data">>]
    ELSE
    LET context == JGet(data, "@context")
        type == JGet(data, "@type")
        Missing(key) == ~JTruthy(JGet(data, key))
        issues ==
            When(~JTruthy(context) \/ ~ContextIncludes(context, "schema.org"),
                 "Missing or invalid @context (should be schema.org)")
            \o When(~JTruthy(type), "Missing @type property")
            \o (IF type = JStr("Product")
                THEN When(Missing("name"),
                          "Product schema missing required property: name")
                     \o When(Missing("description"),
                             "Product schema missing recommended property: description")
                     \o When(Missing("image"),
                             "Product schema missing recommended property: image")
                     \o When(Missing("offers"),
                             "Product schema missing recommended property: offers")
                ELSE IF type = JStr("Article") \/ type = JStr("BlogPosting")
                THEN When(Missing("headline"),
                          "Article schema missing required property: headline")
                     \o When(Missing("author"),
                             "Article schema missing recommended property: author")
                     \o When(Missing("datePublished"),
                             "Article schema missing recommended property: datePublished")
                ELSE <<>>)
    IN [valid |-> Len(issues) = 0, issues |-> issues]

\* the score and assessment for a number of properties
CoverageFor(n) ==
    IF n = 0 THEN [score |-> 0, assessment |-> "No properties defined"]
    ELSE IF n < 3 THEN [score |-> 20, assessment |-> "Minimal properties defined"]
    ELSE IF n < 5 THEN [score |-> 40, assessment |-> "Basic properties defined"]
    ELSE IF n < 8 THEN [score |-> 60, assessment |-> "Good property coverage"]
    ELSE IF n < 12
    THEN [score |-> 80, assessment |-> "Very good property coverage"]
    ELSE [score |-> 100, assessment |-> "Excellent property coverage"]

assessJsonLdCoverage(data) ==
    IF ~JTruthy(data) \/ ~JTruthy(JGet(data, "@type"))
    THEN [score |-> 0, assessment |-> "Missing or invalid schema"]
    ELSE LET Other(key) == key # "@context" /\ key # "@type"
         IN CoverageFor(Len(SelectSeq(JKeys(data), Other)))

generateJsonLdRecommendations(data, type, validation, coverage) ==
    [i \in 1..Len(validation.issues) |-> "Fix: " \o validation.issues[i]]
    \o (IF coverage.score < 60
        THEN <<"Improve your " \o type \o " schema by adding more properties.">>
        ELSE <<>>)

getOverallJsonLdRecommendations(jsonldData, errors) ==
    When(Len(errors) > 0,
         "Fix JSON-LD syntax errors to ensure proper interpretation by search engines.")
    \o When(Len(jsonldData) = 0,
            "Implement JSON-LD structured data to improve search engine understanding of your content.")
    \o When(Len(jsonldData) > 5,
            "You have many JSON-LD blocks. Consider consolidating them if possible.")

\* the scripts whose text JSON.parse accepts
ParsedJsonLd(document) ==
    LET Ok(script) == script.parses
        ok == SelectSeq(document.jsonld, Ok)
    IN [i \in 1..Len(ok) |-> ok[i].data]

analyzeJSONLDThrows(document) ==
    \E i \in 1..Len(ParsedJsonLd(document)) :
        \/ getJsonLdTypeThrows(ParsedJsonLd(document)[i])
        \/ validateJsonLdThrows(ParsedJsonLd(document)[i])

analyzeJSONLD(document) ==
    LET scripts == document.jsonld
        jsonldData == ParsedJsonLd(document)
        errors ==
            Concat([i \in 1..Len(scripts) |->
                       IF scripts[i].parses THEN <<>>
                       ELSE <<[index |-> i - 1,
                               error |-> "Invalid JSON-LD: " \o scripts[i].message]>>])
    IN [count |-> Len(scripts),
        data |-> jsonldData,
        analysis |->
            [i \in 1..Len(jsonldData) |->
                LET data == jsonldData[i]
                    type == getJsonLdType(data)
                    isValid == validateJsonLd(data)
                    coverage == assessJsonLdCoverage(data)
                IN [index |-> i - 1,
                    type |-> type,
                    valid |-> isValid.valid,
                    validationIssues |-> isValid.issues,
                    coverage |-> coverage.score,
                    coverageAssessment |-> coverage.assessment,
                    recommendations |->
                        generateJsonLdRecommendations(data, type, isValid, coverage)]],
        errors |-> errors,
        recommendations |-> getOverallJsonLdRecommendations(jsonldData, errors)]

\* the last piece of type.split('/')
LastSegment(type) == LET parts == Split(type, {"/"}) IN parts[Len(parts)]

validateMicrodata(item) ==
    LET issues ==
            When(item.type = "No type specified", "Missing itemtype attribute")
            \o When(item.type # "No type specified"
                    /\ ~Includes(item.type, "schema.org"),
                    "itemtype should reference schema.org")
            \o When(DOMAIN item.properties = {}, "No itemprop attributes found")
    IN [valid |-> Len(issues) = 0, issues |-> issues]

assessMicrodataCoverage(item) == CoverageFor(Cardinality(DOMAIN item.properties))

generateMicrodataRecommendations(item, coverage, validation) ==
    [i \in 1..Len(validation.issues) |-> "Fix: " \o validation.issues[i]]
    \o (IF coverage.score < 60
        THEN <<"Add more properties to your " \o LastSegment(item.type)
               \o " microdata to improve coverage.">>
        ELSE <<>>)

getOverallMicrodataRecommendations(microdataItems) ==
    IF Len(microdataItems) = 0
    THEN <<"No microdata found. Consider implementing structured data (preferably JSON-LD).">>
    ELSE <<"Consider converting microdata to JSON-LD format, which is preferred by Google.">>

analyzeMicrodata(document) ==
    LET elements == document.microdata
        microdataItems ==
            [i \in 1..Len(elements) |->
                [type |-> IF elements[i].itemtype = "" THEN "No type specified"
                          ELSE elements[i].itemtype,
                 properties |-> FromEntries(elements[i].properties)]]
    IN [count |-> Len(elements),
        data |-> microdataItems,
        analysis |->
            [i \in 1..Len(microdataItems) |->
                LET item == microdataItems[i]
                    coverage == assessMicrodataCoverage(item)
                    issues == validateMicrodata(item)
                IN [index |-> i - 1,
                    type |-> item.type,
                    propertyCount |-> Cardinality(DOMAIN item.properties),
                    coverage |-> coverage.score,
                    coverageAssessment |-> coverage.assessment,
                    valid |-> issues.valid,
                    validationIssues |-> issues.issues,
                    recommendations |->
                        generateMicrodataRecommendations(item, coverage, issues)]],
        recommendations |-> getOverallMicrodataRecommendations(microdataItems)]

\* data['@type'] / item['@type'] throws a TypeError on null
getImplementedSchemaTypesThrows(jsonldAnalysis) ==
    \E i \in 1..Len(jsonldAnalysis.data) :
        LET data == jsonldAnalysis.data[i]
        IN \/ data.t = "null"
           \/ data.t = "array" /\ \E j \in 1..Len(data.items) : data.items[j].t = "null"

\* Array.from(new Set(values)): the first occurrence of each value
Distinct(values) ==
    LET First(i) == \A j \in 1..(i - 1) : values[j] # values[i]
    IN Concat([i \in 1..Len(values) |-> IF First(i) THEN <<values[i]>> ELSE <<>>])

\* the truthy '@type' of a value, as the one-element list to add
TypeToAdd(value) ==
    IF JTruthy(JGet(value, "@type")) THEN <<JGet(value, "@type").v>> ELSE <<>>

getImplementedSchemaTypes(jsonldAnalysis, microdataAnalysis) ==
    LET fromJsonLd ==
            Concat([i \in 1..Len(jsonldAnalysis.data) |->
                       LET data == jsonldAnalysis.data[i]
                       IN IF data.t = "array"
                          THEN Concat([j \in 1..Len(data.items) |->
                                          TypeToAdd(data.items[j])])
                          ELSE TypeToAdd(data)])
        fromMicrodata ==
            Concat([i \in 1..Len(microdataAnalysis.data) |->
                       LET item == microdataAnalysis.data[i]
                       IN IF item.type # "No type specified"
                             /\ LastSegment(item.type) # ""
                          THEN <<LastSegment(item.type)>> ELSE <<>>])
    IN Distinct(fromJsonLd \o fromMicrodata)

analyzeStructuredDataThrows(document) ==
    \/ analyzeJSONLDThrows(document)
    \/ getImplementedSchemaTypesThrows([data |-> ParsedJsonLd(document)])

\* the object analyzeStructuredData returns for the two analyses and the
\* implemented types
StructuredDataResult(document, jsonldAnalysis, microdataAnalysis, implementedTypes) ==
    LET hasAnyStructuredData == jsonldAnalysis.count > 0 \/ microdataAnalysis.count > 0
        Has(type) == type \in SeqToSet(implementedTypes)
        hasOrganization == Has("Organization") \/ Has("LocalBusiness")
        hasBreadcrumbs == Has("BreadcrumbList")
        hasArticle == Has("Article") \/ Has("NewsArticle") \/ Has("BlogPosting")
        hasProduct == Has("Product")
        hasFAQ == Has("FAQPage")
    IN [hasStructuredData |-> hasAnyStructuredData,
        jsonld |-> jsonldAnalysis,
        microdata |-> microdataAnalysis,
        implementedTypes |-> implementedTypes,
        recommendations |->
            When(~hasAnyStructuredData,
                 "No structured data found. Consider implementing JSON-LD for better search engine visibility.")
            \o When(~hasOrganization,
                    "No Organization schema found. Add this to improve your brand presence in search results.")
            \o When(~hasBreadcrumbs /\ (document.navElements \/ document.lists > 0),
                    "Consider adding BreadcrumbList schema to enhance navigation display in search results.")
            \o When(document.articleElements /\ ~hasArticle,
                    "Content appears to be an article. Add Article schema type to improve visibility in search.")
            \o When(document.productElements /\ ~hasProduct,
                    "Page may contain product information. Consider adding Product schema.")
            \o When(document.faqElements /\ ~hasFAQ,
                    "Page may contain FAQ content. Consider adding FAQPage schema to be eligible for rich results.")]

StructuredDataFrom(document, jsonldAnalysis, microdataAnalysis) ==
    StructuredDataResult(document, jsonldAnalysis, microdataAnalysis,
                         getImplementedSchemaTypes(jsonldAnalysis,
                                                   microdataAnalysis))

analyzeStructuredData(document) ==
    StructuredDataFrom(document, analyzeJSONLD(document),
                       analyzeMicrodata(document))

-----------------------------------------------------------------------------
(* HTML extraction (analyzers/html-analyzer.js)                            *)
(*                                                                         *)
(* The document also carries headingElements (the h1..h6 elements in       *)
(* document order, each [level, text]),                                    *)
(* images (the <img> elements, each [src, alt, loading] with src Some or   *)
(* JSNull) and scripts (the src of each script with JavaScript, "" for an  *)
(* inline one).                                                            *)

\* x || '' for a nullable string
OrEmpty(x) == IF Truthy(x) THEN x.v ELSE ""

extractMetaInfo(document) ==
    [title |-> OrEmpty(document.title),
     description |-> OrEmpty(getMetaContent(document, "name", "description")),
     keywords |-> OrEmpty(getMetaContent(document, "name", "keywords"))]

extractOpenGraph(document) ==
    LET ogTags == MetasWithPrefix(document, "property", "og:")
    IN FromEntries([i \in 1..Len(ogTags) |-> <<ogTags[i].key, ogTags[i].content>>])

\* Array.from(document.querySelectorAll(`h${i}`)).map(h => h.textContent)
HeadingTexts(document, level) ==
    LET OfLevel(h) == h.level = level
        found == SelectSeq(document.headingElements, OfLevel)
    IN [i \in 1..Len(found) |-> found[i].text]

extractHeadings(document) ==
    [h1 |-> HeadingTexts(document, 1), h2 |-> HeadingTexts(document, 2),
     h3 |-> HeadingTexts(document, 3), h4 |-> HeadingTexts(document, 4),
     h5 |-> HeadingTexts(document, 5), h6 |-> HeadingTexts(document, 6)]

extractCanonicalLink(document) == OrEmpty(document.canonical)

\* viewportMeta && /width=device-width/i.test(content)
analyzeMobileFriendliness(document) ==
    LET viewportMeta == getMetaContent(document, "name", "viewport")
    IN [isResponsive |->
            IF viewportMeta = JSNull THEN JSNull
            ELSE Some(Includes(ToLowerCase(viewportMeta.v), "width=device-width"))]

\* path.extname(src)
ExtName(src) ==
    LET segments == Split(src, {"/"})
        base == segments[Len(segments)]
        dots == {i \in 2..Len(base) : CharAt(base, i) = "."}
    IN IF dots = {} THEN ""
       ELSE SubSeq(base, CHOOSE i \in dots : \A j \in dots : j <= i, Len(base))

\* heads[i] is the outcome of axios.head for image i: "fail", or
\* [length |-> Some(digits) or JSNull] for the content-length of the answer.
\* An image without src makes path.extname throw: the loop ends there.
RECURSIVE ImagesFrom(_, _, _)
ImagesFrom(imgs, heads, i) ==
    IF i > Len(imgs) \/ imgs[i].src = JSNull THEN <<>>
    ELSE IF heads[i] = [failed |-> TRUE] THEN ImagesFrom(imgs, heads, i + 1)
    ELSE << [src |-> imgs[i].src.v,
             alt |-> imgs[i].alt,
             loading |-> imgs[i].loading,
             fileSize |-> IF Truthy(heads[i].length)
                          THEN Some(ParseDigits(heads[i].length.v, 1, 0))
                          ELSE JSNull,
             format |-> ToLowerCase(ExtName(imgs[i].src.v))] >>
         \o ImagesFrom(imgs, heads, i + 1)

analyzeImages(document, heads, opts) ==
    LET images == ImagesFrom(document.images, heads, 1)
        Large(img) == /\ img.fileSize # JSNull /\ img.fileSize.v # 0
                      /\ img.fileSize.v > opts.thresholds.largeImageSize
    IN [images |-> images, largeImages |-> SelectSeq(images, Large)]

\* document.scripts holds the JSON-LD scripts too
analyzeJSCrawlability(document) ==
    LET scripts ==
            [i \in 1..Len(document.scripts) |->
                IF document.scripts[i] = "" THEN "inline" ELSE document.scripts[i]]
            \o [i \in 1..Len(document.jsonld) |-> "inline"]
    IN [scripts |-> scripts, jsCrawlabilityIssues |-> Len(scripts) = 0]

\* robots and sitemap are the outcomes of the two axios.get calls:
\* Some(body), or JSNull when the request fails
getSEOFiles(robots, sitemap) ==
    [robotsTxt |-> IF robots = JSNull THEN "Not Found" ELSE robots.v,
     sitemapXml |-> IF sitemap = JSNull THEN "Not Found" ELSE sitemap.v]

-----------------------------------------------------------------------------
(* External probes (analyzers/performance-analyzer.js,                     *)
(* analyzers/accessibility-analyzer.js): what each probe computes from     *)
(* what the browser reports.                                               *)

\* the metrics object built from a Lighthouse result
LighthouseMetrics(lhr) ==
    [FCP |-> lhr.fcp, LCP |-> lhr.lcp, TBT |-> lhr.tbt,
     performanceScore |-> lhr.score]

\* the detection object built from the length of the page without JavaScript
CsrSsrDetection(lengthWithoutJS, opts) ==
    LET isSSR == lengthWithoutJS > opts.thresholds.ssrContentLengthThreshold
    IN [isSSR |-> isSSR,
        isCSR |-> ~isSSR,
        recommendation |->
            IF ~isSSR
            THEN "Consider implementing SSR or pre-rendering for better SEO."
            ELSE "Site appears to be using SSR effectively."]

\* pageImages: the [src, loading] pairs page.$$eval returns
LazyLoadedImages(pageImages) ==
    LET Lazy(img) == img.loading = "lazy"
        lazy == SelectSeq(pageImages, Lazy)
    IN [lazyLoadedImages |-> [i \in 1..Len(lazy) |-> lazy[i].src]]

\* the tail of analyzeJavaScriptDependencies, after the browser is closed
JsDependencies(jsFiles, opts) ==
    LET totalJsSize == SumSeq([i \in 1..Len(jsFiles) |-> jsFiles[i].size])
    IN [jsFiles |-> jsFiles,
        totalJsSize |-> totalJsSize,
        recommendation |->
            IF totalJsSize > opts.thresholds.totalJsSize
            THEN "Consider optimizing JavaScript dependencies to reduce page load time."
            ELSE "JavaScript size is within acceptable limits."]

-----------------------------------------------------------------------------
(* Report emitters (reporters/*.js)                                        *)

\* the keys of the record in the order analyzeSEO assigns them
ResultKeys ==
    <<"baseUrl", "title", "description", "keywords", "openGraph", "robotsTxt",
      "sitemapXml", "headings", "images", "largeImages", "canonicalLink",
      "urlStructure", "jsCrawlabilityIssues", "performanceMetrics",
      "mobileFriendliness", "accessibilityIssues", "csrSsrDetection",
      "lazyLoadingIssues", "jsDependencies", "headersAnalysis", "urlAnalysis",
      "socialMediaAnalysis", "contentAnalysis", "structuredDataAnalysis",
      "errors">>

ContentAnalysisKeys == <<"readability", "contentStructure", "contentRatio", "keywords">>

KeywordKeys == <<"wordCount", "topWords", "relevantKeywords", "targetKeywords">>

\* the members JSON.stringify writes for an object: its own properties in
\* order, without those whose value is undefined.  A member is the pair of
\* its key and [value |-> v], or [object |-> members] for the two nested
\* objects that can hold an undefined property.
RECURSIVE MembersFrom(_, _, _)
MembersFrom(obj, keys, i) ==
    IF i > Len(keys) THEN <<>>
    ELSE IF keys[i] \notin DOMAIN obj THEN MembersFrom(obj, keys, i + 1)
    ELSE IF keys[i] = "targetKeywords" /\ obj[keys[i]] = JSUndefined
    THEN MembersFrom(obj, keys, i + 1)
    ELSE <<<<keys[i],
             IF keys[i] = "contentAnalysis"
             THEN [object |-> MembersFrom(obj[keys[i]], ContentAnalysisKeys, 1)]
             ELSE IF keys[i] = "keywords" /\ keys = ContentAnalysisKeys
             THEN [object |-> MembersFrom(obj[keys[i]], KeywordKeys, 1)]
             ELSE [value |-> obj[keys[i]]]>>>>
         \o MembersFrom(obj, keys, i + 1)

\* JSON.stringify(results, null, 2): the text, as the list of its members
JSONstringify(value) == MembersFrom(value, ResultKeys, 1)

\* JSON.parse(text): the object with one property for each member
RECURSIVE ObjectFrom(_)
ObjectFrom(members) ==
    [k \in {members[i][1] : i \in 1..Len(members)} |->
        LET m == CHOOSE i \in 1..Len(members) :
                    /\ members[i][1] = k
                    /\ \A j \in 1..Len(members) : members[j][1] = k => j <= i
        IN IF "object" \in DOMAIN members[m][2]
           THEN ObjectFrom(members[m][2].object) ELSE members[m][2].value]

JSONparse(text) == ObjectFrom(text)

\* path.join(outputDir, filename)
PathJoin(dir, name) == IF dir = "" THEN name ELSE dir \o "/" \o name

\* the outcomes of an emitter: [ok |-> TRUE, ...] of a write, [ok |-> FALSE,
\* message] of a throw the caller can catch, and, with uncaught, of an 'error'
\* event emitted on a stream nobody listens to, which ends the process
Thrown(message) == [ok |-> FALSE, uncaught |-> FALSE, message |-> message]
Uncaught(message) == [ok |-> FALSE, uncaught |-> TRUE, message |-> message]
Written(path, emitter, content) ==
    [ok |-> TRUE, uncaught |-> FALSE, path |-> path, emitter |-> emitter,
     content |-> content]

\* what the file system does to a report: the directory cannot be made
\* (mkdirSync throws), the file cannot be opened for writing, or all is well
FsOutcomes == {"ok", "mkdir fails", "open fails"}

\* results.performanceMetrics.TBT.toFixed(0) in the template
htmlTemplateThrows(record) == "TBT" \notin DOMAIN record.performanceMetrics

\* results.performanceMetrics.TBT.toFixed(0) in createPDFDocument
createPDFDocumentThrows(record) == "TBT" \notin DOMAIN record.performanceMetrics

\* ensureOutputDir, then writeFileSync: both throw inside the try
generateJSONReport(record, outputPath, fsys) ==
    IF fsys # "ok" THEN Thrown("Failed to generate JSON report: EACCES")
    ELSE Written(outputPath \o ".json", "json", JSONstringify(record))

\* ensureOutputDir, ejs.render, then writeFileSync
generateHTMLReport(record, outputPath, fsys) ==
    IF fsys = "mkdir fails" THEN Thrown("Failed to generate HTML report: EACCES")
    ELSE IF htmlTemplateThrows(record)
    THEN Thrown("Failed to generate HTML report: Cannot read properties of undefined (reading 'toFixed')")
    ELSE IF fsys = "open fails"
    THEN Thrown("Failed to generate HTML report: EACCES")
    ELSE Written(outputPath \o ".html", "html", <<>>)

\* ensureOutputDir, then createPDFDocument pipes the document into
\* fs.createWriteStream(filePath) and draws it; the promise listens to the
\* document only, so a failure to open the file is an 'error' event of the
\* write stream without a listener
generatePDFReport(record, outputPath, fsys) ==
    IF fsys = "mkdir fails" THEN Thrown("Failed to generate PDF report: EACCES")
    ELSE IF createPDFDocumentThrows(record)
    THEN Thrown("Failed to generate PDF report: Cannot read properties of undefined (reading 'toFixed')")
    ELSE IF fsys = "open fails"
    THEN Uncaught("EACCES: permission denied, open")
    ELSE Written(outputPath \o ".pdf", "pdf", <<>>)

generateReport(record, opts, fsys) ==
    LET format == IF Truthy(opts.format) THEN opts.format.v
                  ELSE IF Truthy(opts.reportFormat) THEN opts.reportFormat.v
                  ELSE "json"
        outputDir == OrEmpty(opts.outputDir)
        filename == IF Truthy(opts.filename) THEN opts.filename.v ELSE "seo-report"
        outputPath == IF Truthy(opts.outputPath) THEN opts.outputPath.v
                      ELSE PathJoin(outputDir, filename)
        emitted ==
            CASE ToLowerCase(format) = "json" ->
                     generateJSONReport(record, outputPath, fsys)
              [] ToLowerCase(format) = "html" ->
                     generateHTMLReport(record, outputPath, fsys)
              [] ToLowerCase(format) = "pdf" ->
                     generatePDFReport(record, outputPath, fsys)
              [] OTHER -> Thrown("Unsupported report format: " \o format)
    IN IF emitted.ok \/ emitted.uncaught THEN emitted
       ELSE Thrown("Failed to generate report: " \o emitted.message)

-----------------------------------------------------------------------------
(* The analysis run: analyzeSEO (index.js) and the CLI handler             *)
(* (bin/cli.js).  The inputs of a run are picked when it is started.       *)

\* a URL string with the outcome of new URL(string)
Url(href, protocol, hostname, pathname, search, searchParams) ==
    [href |-> href, valid |-> TRUE, protocol |-> protocol,
     hostname |-> hostname, pathname |-> pathname, search |-> search,
     searchParams |-> searchParams]

NotAUrl(href) ==
    [href |-> href, valid |-> FALSE, protocol |-> "", hostname |-> "",
     pathname |-> "", search |-> "", searchParams |-> <<>>]

PageUrl == Url("https://example.com/blog/seo-tips", "https:", "example.com",
               "/blog/seo-tips", "", <<>>)

Link(href, target, text, icon, hidden, inHeader, inFooter, inMain) ==
    [href |-> href, target |-> target, text |-> text, icon |-> icon,
     hidden |-> hidden, inHeader |-> inHeader, inFooter |-> inFooter,
     inMain |-> inMain]

Meta(attr, key, content) == [attr |-> attr, key |-> key, content |-> content]

JsonLd(data) == [parses |-> TRUE, data |-> data, message |-> ""]

\* <html><body></body></html>
EmptyDocument ==
    [metas |-> <<>>, anchors |-> <<>>, canonical |-> JSNull, title |-> JSNull,
     mainContent |-> FALSE, shareHints |-> FALSE, shareCounts |-> FALSE,
     bodyText |-> "", paragraphs |-> <<>>, lists |-> 0, listItems |-> 0,
     jsonld |-> <<>>, microdata |-> <<>>, navElements |-> FALSE,
     articleElements |-> FALSE, productElements |-> FALSE,
     faqElements |-> FALSE,
     headingElements |-> <<>>,
     images |-> <<>>, scripts |-> <<>>]

\* an article page with social tags, links, one image and an Article block
ArticleDocument ==
    [EmptyDocument EXCEPT
        !.title = Some("SEO tips"),
        !.canonical = Some("https://example.com/blog/seo-tips"),
        !.metas = << Meta("name", "description", "Ten SEO tips"),
                     Meta("name", "viewport", "width=device-width, initial-scale=1"),
                     Meta("property", "og:title", "SEO tips"),
                     Meta("property", "og:image", "/img/cover.png"),
                     Meta("name", "twitter:card", "summary") >>,
        !.anchors = << Link("https://twitter.com/example", "_blank", "", FALSE,
                            TRUE, FALSE, TRUE, FALSE),
                       Link("mailto:?subject=SEO", "", "Mail", FALSE, FALSE,
                            FALSE, FALSE, TRUE) >>,
        !.mainContent = TRUE,
        !.articleElements = TRUE,
        !.bodyText = "SEO tips.  Write good titles!  Ranking needs the best seo tips",
        !.paragraphs = << "Write good titles!", "Ranking needs the best seo tips" >>,
        !.lists = 1,
        !.listItems = 2,
        !.headingElements = << [level |-> 1, text |-> "SEO tips"],
                               [level |-> 2, text |-> "Titles"],
                               [level |-> 2, text |-> "Ranking"] >>,
        !.images = << [src |-> Some("/img/cover.png"), alt |-> "cover",
                       loading |-> "lazy"] >>,
        !.scripts = << "/app.js" >>,
        !.jsonld = << JsonLd(JObj(<< <<"@context", JStr("https://schema.org")>>,
                                     <<"@type", JStr("Article")>>,
                                     <<"headline", JStr("SEO tips")>> >>)) >>]

\* the same page with a JSON-LD block whose @context is an object, and one
\* with a block that is the literal null
ContextObjectDocument ==
    [ArticleDocument EXCEPT
        !.jsonld = << JsonLd(JObj(<< <<"@context",
                                       JObj(<< <<"@vocab", JStr("https://schema.org/")>> >>)>>,
                                     <<"@type", JStr("Article")>> >>)) >>]

Documents == {EmptyDocument, ArticleDocument, ContextObjectDocument}

\* the htmlContent argument: a string of `size` characters that parses to
\* `document`, or a value JSDOM cannot convert to a string
HtmlInputs ==
    {[convertible |-> TRUE, size |-> 400, document |-> d] : d \in Documents}
    \cup {[convertible |-> FALSE, size |-> 0, document |-> EmptyDocument]}

ResponseHeaders ==
    << <<"Content-Type", "text/html; charset=utf-8">>,
       <<"Cache-Control", "public, max-age=3600">>,
       <<"Content-Encoding", "br">>,
       <<"Vary", "Accept-Encoding">> >>

KeywordInputs == {JSUndefined, Some(<<>>), Some(<<"seo", "tips">>), Some(<<"c++">>)}

FormatInputs == {JSUndefined, Some("html"), Some("PDF"), Some("xml")}

\* the options a caller of the API passes; a key that is absent is JSUndefined
CallerOptions(u, h, k, a, f) ==
    [url |-> u, headers |-> h, targetKeywords |-> k, siteUrls |-> JSUndefined,
     advancedAnalysis |-> a, format |-> f, reportFormat |-> JSUndefined,
     outputPath |-> JSUndefined, outputDir |-> JSUndefined,
     filename |-> JSUndefined]

ApiOptions ==
    {CallerOptions(PageUrl, h, k, JSUndefined, JSUndefined) :
        h \in {JSUndefined, Some(ResponseHeaders)},
        k \in KeywordInputs}
    \cup {CallerOptions(PageUrl, JSUndefined, JSUndefined, JSUndefined, f) :
            f \in FormatInputs}
    \cup {CallerOptions(u, JSUndefined, JSUndefined, JSUndefined, JSUndefined) :
            u \in {NotAUrl(""), NotAUrl("example")}}
    \cup {CallerOptions(PageUrl, JSUndefined, Some(<<"seo", "tips">>),
                        Some(FALSE), JSUndefined)}

\* the command line: the url argument and the flags commander parsed
CliArgs(u, f, k, h, a) ==
    [url |-> u, format |-> f, output |-> "./reports", keywords |-> k,
     saveHeaders |-> h, advanced |-> a]

CliInputs ==
    {CliArgs(PageUrl, f, "", FALSE, a) :
        f \in {"json", "html", "xml"}, a \in BOOLEAN}
    \cup {CliArgs(PageUrl, f, "seo, tips", TRUE, TRUE) : f \in {"json", "html"}}
    \cup {CliArgs(PageUrl, "pdf", "", FALSE, FALSE)}
    \cup {CliArgs(NotAUrl("example"), "json", "", FALSE, TRUE)}

\* what the servers and the browser can answer
RobotsOutcomes == {Some("User-agent: *")}
SitemapOutcomes == {JSNull}
HeadOutcomes == {[failed |-> TRUE], [length |-> Some("204800")]}
LighthouseOutcomes ==
    {[fcp |-> 1200, lcp |-> 2500, tbt |-> 150, score |-> [num |-> 85, den |-> 100]]}
ViolationOutcomes ==
    {<<[id |-> "image-alt", impact |-> "critical",
        description |-> "Images must have alternate text",
        help |-> "Images must have alternate text"]>>}
PageLengthOutcomes == {500}
PageImageOutcomes ==
    {<<[src |-> "/img/cover.png", loading |-> "lazy"],
       [src |-> "/img/logo.png", loading |-> "eager"]>>}
JsFileOutcomes ==
    {<<[url |-> "https://example.com/app.js", size |-> 600000]>>}

\* new Date().toISOString().replace(/[:.]/g, '-') when the CLI writes its report
Timestamp == "2025-01-01T00-00-00-000Z"

-----------------------------------------------------------------------------
(* analyzeSEO (index.js).  pc is the statement the call is at; every await  *)
(* on the outside world is a step of its own.                               *)

\* options = { ...defaultOptions, ...options }
MergeDefaults(opts) ==
    [opts EXCEPT
        !.reportFormat = IF @ = JSUndefined THEN Some("json") ELSE @,
        !.outputPath = IF @ = JSUndefined THEN Some("./seo-report") ELSE @]
    @@ [imageSizeLimit |-> 100 * 1024,
        timeout |-> 30000,
        thresholds |-> [largeImageSize |-> 100 * 1024,
                        totalJsSize |-> 500 * 1024,
                        ssrContentLengthThreshold |-> 1000,
                        lazyLoadDelay |-> 1000]]

Init ==
    /\ entry = "none"
    /\ cli = <<>>
    /\ cliPc = "none"
    /\ options = <<>>
    /\ html = <<>>
    /\ pc = "idle"
    /\ locals = <<>>
    /\ results = <<>>
    /\ thrown = JSNull
    /\ handles = {}
    /\ world = [doms |-> 0, fetches |-> 0, launches |-> 0]
    /\ reports = <<>>
    /\ log = <<>>
    /\ scored = <<>>

\* a caller of the API calls analyzeSEO(htmlContent, options)
ApiCall ==
    /\ entry = "none"
    /\ \E h \in HtmlInputs, o \in ApiOptions :
        /\ html' = h
        /\ options' = o
    /\ entry' = "api"
    /\ pc' = "called"
    /\ UNCHANGED <<cli, cliPc, locals, results, thrown, handles, world,
                   reports, log, scored>>

\* lines 417-437: the defaults are merged and the url is required
Begin_without_url_check ==
    /\ pc = "called"
    /\ options' = MergeDefaults(options)
    /\ results' = [baseUrl |-> options.url.href]
    /\ pc' = "createDOM"
    /\ UNCHANGED <<entry, cli, cliPc, html, locals, thrown, handles, world,
                   reports, log, scored>>

Begin ==
    /\ pc = "called"
    /\ options' = MergeDefaults(options)
    /\ IF options.url.href = ""
       THEN /\ thrown' = Some([at |-> "analyzeSEO",
                               message |-> "URL is required in options"])
            /\ pc' = "rejected"
            /\ UNCHANGED results
       ELSE /\ results' = [baseUrl |-> options.url.href]
            /\ pc' = "createDOM"
            /\ UNCHANGED thrown
    /\ UNCHANGED <<entry, cli, cliPc, html, locals, handles, world,
                   reports, log, scored>>

\* lines 537-540: the outer catch logs the message and throws the error again
Rethrow(at, message) ==
    /\ log' = Append(log, "Error during SEO analysis: " \o message)
    /\ thrown' = Some([at |-> at, message |-> message])
    /\ pc' = "rejected"

\* lines 441-448: the DOM is built, the synchronous extractors run and the
\* url is parsed
Extract ==
    /\ pc = "createDOM"
    /\ world' = [world EXCEPT !.doms = @ + 1]
    /\ IF ~html.convertible
       THEN /\ Rethrow("createDOM", "Cannot convert object to primitive value")
            /\ UNCHANGED locals
       ELSE IF ~options.url.valid
       THEN /\ Rethrow("URL", "Invalid URL")
            /\ UNCHANGED locals
       ELSE /\ locals' = [metaInfo |-> extractMetaInfo(html.document),
                          openGraph |-> extractOpenGraph(html.document),
                          headings |-> extractHeadings(html.document),
                          canonicalLink |-> extractCanonicalLink(html.document),
                          urlStructure |-> options.url.pathname]
            /\ pc' = "getSEOFiles"
            /\ UNCHANGED <<log, thrown>>
    /\ UNCHANGED <<entry, cli, cliPc, options, html, results, handles,
                   reports, scored>>

\* line 451: robots.txt and sitemap.xml are requested
GetSEOFiles ==
    /\ pc = "getSEOFiles"
    /\ \E robots \in RobotsOutcomes, sitemap \in SitemapOutcomes :
        locals' = locals @@ getSEOFiles(robots, sitemap)
    /\ world' = [world EXCEPT !.fetches = @ + 2]
    /\ pc' = "analyzeImages"
    /\ UNCHANGED <<entry, cli, cliPc, options, html, results, thrown, handles,
                   reports, log, scored>>

\* lines 454-460: one HEAD request for each image, then the two synchronous
\* analyzers of the document
AnalyzeImages ==
    /\ pc = "analyzeImages"
    /\ \E heads \in [1..Len(html.document.images) -> HeadOutcomes] :
        locals' = locals @@ analyzeImages(html.document, heads, options)
                         @@ analyzeJSCrawlability(html.document)
                         @@ [mobileFriendliness |->
                                analyzeMobileFriendliness(html.document)]
    /\ world' = [world EXCEPT !.fetches = @ + Len(html.document.images)]
    /\ pc' = "getPerformanceMetrics"
    /\ UNCHANGED <<entry, cli, cliPc, options, html, results, thrown, handles,
                   reports, log, scored>>

-----------------------------------------------------------------------------
(* The external probes.  A probe is two steps: the launch of its browser,  *)
(* then everything it does with the browser up to its return.              *)

\* performance-analyzer.js 12-14: chromeLauncher.launch, inside the try
PerfLaunch ==
    /\ pc = "getPerformanceMetrics"
    /\ \/ /\ handles' = handles \cup {"chrome"}
          /\ world' = [world EXCEPT !.launches = @ + 1]
          /\ pc' = "lighthouse"
          /\ UNCHANGED <<locals, log>>
       \/ /\ log' = Append(log, "Error getting performance metrics: launch failed")
          /\ locals' = locals @@ [performanceMetrics |-> <<>>]
          /\ pc' = "performAccessibilityAudit"
          /\ UNCHANGED <<handles, world>>
    /\ UNCHANGED <<entry, cli, cliPc, options, html, results, thrown, reports,
                   scored>>

\* performance-analyzer.js 22-35: the lighthouse run; chrome.kill() is the
\* last statement of the try block
PerfRun ==
    /\ pc = "lighthouse"
    /\ \/ \E lhr \in LighthouseOutcomes :
            /\ locals' = locals @@ [performanceMetrics |-> LighthouseMetrics(lhr)]
            /\ handles' = handles \ {"chrome"}
            /\ UNCHANGED log
       \/ /\ log' = Append(log, "Error getting performance metrics: timeout")
          /\ locals' = locals @@ [performanceMetrics |-> <<>>]
          /\ UNCHANGED handles
    /\ pc' = "performAccessibilityAudit"
    /\ UNCHANGED <<entry, cli, cliPc, options, html, results, thrown, world,
                   reports, scored>>

\* const browser = await puppeteer.launch(...), the statement before the try
\* block of the four puppeteer probes; a rejection leaves the probe and is
\* caught by analyzeSEO (index.js 537-540)
PuppeteerLaunch(probe) ==
    /\ pc = probe
    /\ \/ /\ handles' = handles \cup {probe}
          /\ world' = [world EXCEPT !.launches = @ + 1]
          /\ pc' = probe \o ":page"
          /\ UNCHANGED <<log, thrown>>
       \/ /\ Rethrow(probe, "Failed to launch the browser process")
          /\ UNCHANGED <<handles, world>>
    /\ UNCHANGED <<entry, cli, cliPc, options, html, locals, results, reports,
                   scored>>

\* try { ... } catch { console.error } finally { await browser.close() } and
\* the return: `computed` are the values the try block can end with, `default`
\* the value the probe was initialised with
PuppeteerRun(probe, key, computed, default, message, next) ==
    /\ pc = probe \o ":page"
    /\ \/ \E value \in computed :
            /\ locals' = locals @@ (key :> value)
            /\ UNCHANGED log
       \/ /\ log' = Append(log, message \o " Navigation timeout")
          /\ locals' = locals @@ (key :> default)
    /\ handles' = handles \ {probe}
    /\ pc' = next
    /\ UNCHANGED <<entry, cli, cliPc, options, html, results, thrown, world,
                   reports, scored>>

\* accessibility-analyzer.js 9-32
A11yLaunch == PuppeteerLaunch("performAccessibilityAudit")

A11yRun ==
    PuppeteerRun("performAccessibilityAudit", "accessibilityIssues",
                 ViolationOutcomes, <<>>,
                 "Error during accessibility audit:", "detectCSRorSSR")

\* performance-analyzer.js 44-76
CsrLaunch == PuppeteerLaunch("detectCSRorSSR")

CsrRun ==
    PuppeteerRun("detectCSRorSSR", "csrSsrDetection",
                 {CsrSsrDetection(n, options) : n \in PageLengthOutcomes}, <<>>,
                 "Error detecting CSR/SSR:", "detectLazyLoading")

\* performance-analyzer.js 84-109
LazyLaunch == PuppeteerLaunch("detectLazyLoading")

LazyRun ==
    PuppeteerRun("detectLazyLoading", "lazyLoadingIssues",
                 {LazyLoadedImages(imgs) : imgs \in PageImageOutcomes},
                 LazyLoadedImages(<<>>),
                 "Error detecting lazy loading:", "analyzeJavaScriptDependencies")

\* performance-analyzer.js 117-154: the files seen before a failure are kept
JsDepsLaunch == PuppeteerLaunch("analyzeJavaScriptDependencies")

JsDepsRun ==
    PuppeteerRun("analyzeJavaScriptDependencies", "jsDependencies",
                 {JsDependencies(files, options) : files \in JsFileOutcomes},
                 JsDependencies(<<>>, options),
                 "Error analyzing JavaScript dependencies:", "combine")

-----------------------------------------------------------------------------
(* index.js 473-536: the record is combined and the advanced analyzers run *)

\* the keys analyzeSEO assigns at lines 474-492, after baseUrl
CombinedKeys ==
    {"title", "description", "keywords", "openGraph", "robotsTxt",
     "sitemapXml", "headings", "images", "largeImages", "canonicalLink",
     "urlStructure", "jsCrawlabilityIssues", "performanceMetrics",
     "mobileFriendliness", "accessibilityIssues", "csrSsrDetection",
     "lazyLoadingIssues", "jsDependencies"}

\* results = { ...results, ...metaInfo, openGraph, ... }
CombineResults(res, loc) ==
    res @@ loc.metaInfo
        @@ [k \in CombinedKeys \ DOMAIN loc.metaInfo |-> loc[k]]

\* line 521: options.targetKeywords && options.targetKeywords.length > 0
KeywordsRequested_without_length(opts) ==
    opts.targetKeywords # JSUndefined

KeywordsRequested(opts) ==
    /\ opts.targetKeywords # JSUndefined
    /\ Len(opts.targetKeywords.v) > 0

\* lines 527-535: the catch block of the advanced phase
CatchAdvanced_twice(res, message) ==
    LET error == [type |-> "advanced_analysis_error", message |-> message,
                  stack |-> "Error: " \o message]
    IN res @@ [errors |-> <<error, error>>]

CatchAdvanced(res, message) ==
    LET error == [type |-> "advanced_analysis_error", message |-> message,
                  stack |-> "Error: " \o message]
    IN IF "errors" \in DOMAIN res
       THEN [res EXCEPT !.errors = Append(@, error)]
       ELSE res @@ [errors |-> <<error>>]

\* lines 496-526.  Each statement of the try block takes the block's state
\* [record, error]: the record with the results assigned so far and the error
\* thrown, if any; a statement after a throw does not run.

\* lines 501-503
RunHeaders_always(st, opts) ==
    [st EXCEPT !.record =
        @ @@ [headersAnalysis |->
                analyzeHeaders(IF opts.headers = JSUndefined THEN <<>>
                               ELSE opts.headers.v)]]

RunHeaders(st, opts) ==
    IF opts.headers = JSUndefined THEN st
    ELSE [st EXCEPT !.record =
            @ @@ [headersAnalysis |-> analyzeHeaders(opts.headers.v)]]

\* lines 506-508
RunUrl(st, opts) ==
    [st EXCEPT !.record =
        @ @@ [urlAnalysis |->
                analyzeUrl(opts.url, IF opts.siteUrls # JSUndefined
                                     THEN opts.siteUrls.v ELSE <<>>)]]

\* line 511
RunSocial(st, document, opts) ==
    [st EXCEPT !.record =
        @ @@ [socialMediaAnalysis |-> analyzeSocialMedia(document, opts.url)]]

\* lines 514-518
RunContent(st, document, htmlSize, textContent) ==
    [st EXCEPT !.record =
        @ @@ [contentAnalysis |->
                [readability |-> calculateReadability(textContent),
                 contentStructure |-> analyzeContentStructure(document),
                 contentRatio |-> analyzeContentRatio(htmlSize, textContent)]]]

\* lines 521-523
RunKeywords(st, textContent, opts) ==
    IF ~KeywordsRequested(opts) THEN st
    ELSE IF analyzeKeywordsThrows(textContent, opts.targetKeywords.v)
    THEN [st EXCEPT !.error =
            Some("Invalid regular expression: Nothing to repeat")]
    ELSE [st EXCEPT !.record.contentAnalysis =
            @ @@ [keywords |->
                    analyzeKeywords(textContent, opts.targetKeywords.v)]]

\* line 526
RunStructuredData(st, document) ==
    IF st.error # JSNull THEN st
    ELSE IF analyzeStructuredDataThrows(document)
    THEN [st EXCEPT !.error = Some("context.includes is not a function")]
    ELSE [st EXCEPT !.record =
            @ @@ [structuredDataAnalysis |-> analyzeStructuredData(document)]]

\* the end of the try block, or its catch
EndAdvanced(st) ==
    IF st.error = JSNull THEN st.record
    ELSE CatchAdvanced(st.record, st.error.v)

AdvancedAnalysis(res, document, htmlSize, opts) ==
    EndAdvanced(
      RunStructuredData(
        RunKeywords(
          RunContent(
            RunSocial(
              RunUrl(
                RunHeaders([record |-> res, error |-> JSNull], opts),
                opts),
              document, opts),
            document, htmlSize, extractTextContent(document)),
          extractTextContent(document), opts),
        document))

\* lines 474-536: synchronous, one step
Combine ==
    /\ pc = "combine"
    /\ LET combined == CombineResults(results, locals)
       IN results' = IF options.advancedAnalysis # Some(FALSE)
                     THEN AdvancedAnalysis(combined, html.document, html.size,
                                           options)
                     ELSE combined
    /\ log' = IF "errors" \in DOMAIN results'
              THEN Append(log, "Error in advanced analysis: "
                               \o results'.errors[1].message)
              ELSE log
    /\ pc' = "generateReport"
    /\ UNCHANGED <<entry, cli, cliPc, options, html, locals, thrown, handles,
                   world, reports, scored>>

\* lines 542-553: the report is generated inside its own try block and the
\* record is returned
Report ==
    /\ pc = "generateReport"
    /\ \E fsys \in FsOutcomes :
        LET emitted == generateReport(results, options, fsys)
        IN IF emitted.ok
           THEN /\ reports' = Append(reports,
                                [path |-> emitted.path,
                                 emitter |-> emitted.emitter,
                                 by |-> "analyzeSEO",
                                 content |-> emitted.content])
                /\ pc' = "resolved"
                /\ UNCHANGED <<log, cliPc>>
           ELSE IF emitted.uncaught
           THEN /\ log' = Append(log, "Uncaught Error: " \o emitted.message)
                /\ pc' = "crashed"
                /\ cliPc' = IF entry = "cli" THEN "exit1" ELSE cliPc
                /\ UNCHANGED reports
           ELSE /\ log' = Append(log, "Error generating report: "
                                      \o emitted.message)
                /\ pc' = "resolved"
                /\ UNCHANGED <<reports, cliPc>>
    /\ UNCHANGED <<entry, cli, options, html, locals, results, thrown,
                   handles, world, scored>>

-----------------------------------------------------------------------------
(* bin/cli.js: the action handler of the seo-info command                  *)

\* hostname.replace(/[^a-z0-9]/gi, '_')
RECURSIVE SafeName(_)
SafeName(s) ==
    IF Len(s) = 0 THEN ""
    ELSE (IF CharAt(s, 1) \in LowerChars \cup UpperChars \cup DigitChars
          THEN CharAt(s, 1) ELSE "_") \o SafeName(Tail(s))

\* options.keywords.split(',').map(k => k.trim())
KeywordList(keywords) ==
    LET pieces == Split(keywords, {","})
    IN [i \in 1..Len(pieces) |-> Trim(pieces[i])]

\* lines 112-117
ReportOptions(args) ==
    [format |-> Some(args.format),
     reportFormat |-> JSUndefined,
     outputPath |-> JSUndefined,
     outputDir |-> Some(args.output),
     filename |-> Some(SafeName(args.url.hostname) \o "_" \o Timestamp)]

\* the command is run with a url and its flags
CliStart ==
    /\ entry = "none"
    /\ \E args \in CliInputs : cli' = args
    /\ entry' = "cli"
    /\ cliPc' = "fetch"
    /\ UNCHANGED <<options, html, pc, locals, results, thrown, handles, world,
                   reports, log, scored>>

\* lines 55-93: the options are built, the page is fetched and analyzeSEO is
\* called; a failed request is caught at the end of the handler
CliFetch ==
    /\ cliPc = "fetch"
    /\ \/ /\ cli.url.valid
          /\ \E h \in {x \in HtmlInputs : x.convertible} : html' = h
          /\ options' =
                CallerOptions(cli.url,
                              IF cli.saveHeaders THEN Some(ResponseHeaders)
                              ELSE JSUndefined,
                              IF cli.keywords # ""
                              THEN Some(KeywordList(cli.keywords))
                              ELSE JSUndefined,
                              Some(cli.advanced),
                              JSUndefined)
          /\ pc' = "called"
          /\ cliPc' = "analyzeSEO"
          /\ UNCHANGED log
       \/ /\ log' = Append(log, "Error: request failed")
          /\ cliPc' = "exit1"
          /\ UNCHANGED <<options, html, pc>>
    /\ UNCHANGED <<entry, cli, locals, results, thrown, handles, world,
                   reports, scored>>

\* lines 95-121: the output directory is made and the record is handed to
\* generateReport with the format of the command line
CliReport ==
    /\ cliPc = "analyzeSEO"
    /\ pc = "resolved"
    /\ \E fsys \in FsOutcomes :
        LET emitted == generateReport(results, ReportOptions(cli), fsys)
        IN IF emitted.ok
           THEN /\ reports' = Append(reports,
                                [path |-> emitted.path,
                                 emitter |-> emitted.emitter,
                                 by |-> "cli",
                                 content |-> emitted.content])
                /\ cliPc' = "exit0"
                /\ UNCHANGED log
           ELSE IF emitted.uncaught
           THEN /\ log' = Append(log, "Uncaught Error: " \o emitted.message)
                /\ cliPc' = "exit1"
                /\ UNCHANGED reports
           ELSE /\ log' = Append(log, "Error: " \o emitted.message)
                /\ cliPc' = "exit1"
                /\ UNCHANGED reports
    /\ UNCHANGED <<entry, cli, options, html, pc, locals, results, thrown,
                   handles, world, scored>>

\* the catch of the handler when analyzeSEO rejects: process.exit(1)
CliCatch ==
    /\ cliPc = "analyzeSEO"
    /\ pc = "rejected"
    /\ log' = Append(log, "Error: " \o thrown.v.message)
    /\ cliPc' = "exit1"
    /\ UNCHANGED <<entry, cli, options, html, pc, locals, results, thrown,
                   handles, world, reports, scored>>

-----------------------------------------------------------------------------
(* The three scoring analyzers applied on their own, to inputs built from  *)
(* the pools below.                                                        *)

MaxParams == 5
MaxHeaders == 3
MaxMetas == 8
MaxLinks == 3

\* the runs of at most `max` consecutive elements of a pool
Windows(pool, max) ==
    {SubSeq(pool, w[1], w[2]) :
        w \in {p \in (1..(Len(pool) + 1)) \X (0..Len(pool)) :
                  p[1] - 1 <= p[2] /\ p[2] - p[1] < max}}

ParamPool ==
    << <<"page", "2">>, <<"utm_source", "mail">>, <<"sessionId", "9f">>,
       <<"q", "seo">>, <<"sort", "asc">>, <<"lang", "en">> >>

\* k=v&k=v
RECURSIVE QueryString(_)
QueryString(params) ==
    IF params = <<>> THEN ""
    ELSE Head(params)[1] \o "=" \o Head(params)[2]
         \o (IF Len(params) > 1 THEN "&" ELSE "") \o QueryString(Tail(params))

\* the URL written from its parts, as new URL parses it
UrlOf(protocol, hostname, pathname, params) ==
    LET search == IF params = <<>> THEN "" ELSE "?" \o QueryString(params)
    IN Url(protocol \o "//" \o hostname \o pathname \o search,
           protocol, hostname, pathname, search, params)

ScoreUrls ==
    {UrlOf(protocol, hostname, pathname, params) :
        protocol \in {"https:", "http:", "ftp:"},
        hostname \in {"example.com", "www.my-shop-4-you.co.uk",
                      "a.b.this-domain-name-is-far-too-long-to-be-remembered.example.xyz"},
        pathname \in {"/", "/blog/seo-tips", "/Shop/seo_tips/seo-tips/shop/a b/file.aspx",
                      "/docs/", "/seo-seo-seo", "/seo/seo-tips",
                      "/seo-tips-seo-tips"},
        params \in Windows(ParamPool, MaxParams)}
    \cup {NotAUrl(""), NotAUrl("example")}

SiteUrls ==
    {<<>>,
     <<UrlOf("https:", "example.com", "/", <<>>),
       UrlOf("https:", "example.com", "/Blog/", <<>>),
       NotAUrl("about")>>,
     <<UrlOf("https:", "example.com", "/blog/seo-tips", <<>>),
       UrlOf("https:", "example.com", "/blog/links", <<>>),
       UrlOf("https:", "example.com", "/blog/titles", <<>>),
       UrlOf("https:", "example.com", "/shop/titles", <<>>)>>,
     <<UrlOf("https:", "example.com", "/about", <<>>),
       UrlOf("https:", "example.com", "/contact", <<>>)>>}

HeaderPool ==
    << <<"Content-Type", "text/html; charset=utf-8">>,
       <<"content-type", "text/html">>,
       <<"Cache-Control", "public, max-age=86400">>,
       <<"cache-control", "no-store">>,
       <<"ETag", "W/1">>,
       <<"Last-Modified", "Mon, 01 Jan 2024 00:00:00 GMT">>,
       <<"Content-Encoding", "br">>,
       <<"Vary", "Accept-Encoding">>,
       <<"content-encoding", "identity">>,
       <<"Strict-Transport-Security", "max-age=31536000">>,
       <<"X-Robots-Tag", "noindex">>,
       <<"Content-Language", "en">> >>

\* the header objects with at most MaxHeaders entries of the pool, in order
ScoreHeaderInputs ==
    {SelectSeqOf(HeaderPool, chosen) :
        chosen \in {c \in SUBSET (1..Len(HeaderPool)) : Cardinality(c) <= MaxHeaders}}

\* header objects built from one choice for each of the four sub-analyzers
SecurityPool ==
    << <<"Strict-Transport-Security", "max-age=31536000">>,
       <<"Content-Security-Policy", "default-src https:">>,
       <<"X-Content-Type-Options", "nosniff">>,
       <<"X-Frame-Options", "DENY">>,
       <<"X-XSS-Protection", "1; mode=block">>,
       <<"Referrer-Policy", "no-referrer">>,
       <<"Permissions-Policy", "geolocation=()">> >>

SecurityChoices ==
    {<<>>, SecurityPool}
    \cup {SelectSeqOf(SecurityPool, (1..Len(SecurityPool)) \ {i}) :
            i \in 1..Len(SecurityPool)}

CacheChoices ==
    {<<>>,
     << <<"Cache-Control", "public, max-age=86400">>, <<"ETag", "W/1">>,
        <<"Last-Modified", "Mon, 01 Jan 2024 00:00:00 GMT">> >>,
     << <<"CACHE-CONTROL", "max-age">>, <<"etag", "W/1">>,
        <<"last-modified", "Mon, 01 Jan 2024 00:00:00 GMT">> >>,
     << <<"Cache-Control", "private, max-age=60">>, <<"ETag", "W/1">>,
        <<"Last-Modified", "Mon, 01 Jan 2024 00:00:00 GMT">> >>,
     << <<"ETag", "W/1">> >>}

ContentChoices ==
    {<<>>,
     << <<"Content-Type", "text/html; charset=UTF-8">>,
        <<"Content-Language", "en">> >>,
     << <<"Content-Type", "text/html; charset=utf-8">>,
        <<"Content-Language", "en">>, <<"X-Robots-Tag", "all">> >>,
     << <<"Content-Type", "text/html">>, <<"Content-Language", "en">>,
        <<"X-Robots-Tag", "noindex">> >>}

CompressionChoices ==
    {<<>>,
     << <<"Content-Encoding", "br">>, <<"Vary", "Accept-Encoding">> >>,
     << <<"Content-Encoding", "gzip">>, <<"Vary", "Accept-Encoding">> >>,
     << <<"Content-Encoding", "deflate">>, <<"Vary", "Accept-Encoding">> >>,
     << <<"Content-Encoding", "deflate">>, <<"Vary", "User-Agent">> >>,
     << <<"Content-Encoding", "br">> >>,
     << <<"Content-Encoding", "br">>, <<"Vary", "User-Agent">> >>,
     << <<"Content-Encoding", "gzip">> >>,
     << <<"Content-Encoding", "zstd">>, <<"Vary", "Accept-Encoding">> >>,
     << <<"Content-Encoding", "zstd">> >>,
     << <<"Vary", "Accept-Encoding">> >>,
     << <<"Server", "nginx">> >>}

HeaderProfiles ==
    {cache \o security \o content \o compression :
        cache \in CacheChoices, security \in SecurityChoices,
        content \in ContentChoices, compression \in CompressionChoices}

MetaPool ==
    << Meta("name", "twitter:image", "/img/cover.png"),
       Meta("name", "twitter:card", "gallery"),
       Meta("property", "og:title", "SEO tips"),
       Meta("property", "og:description", "Ten SEO tips"),
       Meta("property", "og:image", "https://example.com/img/cover.png"),
       Meta("property", "og:url", "https://example.com/blog/seo-tips"),
       Meta("property", "og:type", "article"),
       Meta("property", "og:site_name", "Example"),
       Meta("property", "og:image:width", "1200"),
       Meta("property", "og:image:height", "630") >>

LinkPool ==
    << Link("https://twitter.com/example", "", "", FALSE, TRUE, FALSE, FALSE, FALSE),
       Link("https://www.facebook.com/sharer/sharer.php?t=SEO", "_blank", "Share",
            FALSE, FALSE, FALSE, FALSE, TRUE),
       Link("https://twitter.com/intent/tweet?url={url}", "_blank", "", TRUE,
            FALSE, FALSE, TRUE, FALSE),
       Link("https://linkedin.com/company/example", "_blank", "LinkedIn", FALSE,
            FALSE, TRUE, FALSE, FALSE),
       Link("mailto:?subject=SEO", "", "Mail", FALSE, FALSE, FALSE, FALSE, TRUE) >>

ScoreDocuments ==
    {[ArticleDocument EXCEPT !.metas = metas, !.anchors = anchors,
                             !.shareHints = hints] :
        metas \in Windows(MetaPool, MaxMetas),
        anchors \in Windows(LinkPool, MaxLinks),
        hints \in BOOLEAN}

ScoreUrl ==
    /\ scored = <<>>
    /\ \E url \in ScoreUrls, pageUrls \in SiteUrls :
        scored' = [fn |-> "analyzeUrl",
                   input |-> [url |-> url, pageUrls |-> pageUrls],
                   output |-> analyzeUrl(url, pageUrls)]
    /\ UNCHANGED <<entry, cli, cliPc, options, html, pc, locals, results,
                   thrown, handles, world, reports, log>>

ScoreHeaders ==
    /\ scored = <<>>
    /\ \E headers \in ScoreHeaderInputs \cup HeaderProfiles :
        scored' = [fn |-> "analyzeHeaders", input |-> headers,
                   output |-> analyzeHeaders(headers)]
    /\ UNCHANGED <<entry, cli, cliPc, options, html, pc, locals, results,
                   thrown, handles, world, reports, log>>

ScoreSocial ==
    /\ scored = <<>>
    /\ \E document \in ScoreDocuments :
        scored' = [fn |-> "analyzeSocialMedia", input |-> document,
                   output |-> analyzeSocialMedia(document, PageUrl)]
    /\ UNCHANGED <<entry, cli, cliPc, options, html, pc, locals, results,
                   thrown, handles, world, reports, log>>

Next ==
    \/ ApiCall
    \/ Begin
    \/ Extract
    \/ GetSEOFiles
    \/ AnalyzeImages
    \/ PerfLaunch
    \/ PerfRun
    \/ A11yLaunch
    \/ A11yRun
    \/ CsrLaunch
    \/ CsrRun
    \/ LazyLaunch
    \/ LazyRun
    \/ JsDepsLaunch
    \/ JsDepsRun
    \/ Combine
    \/ Report
    \/ CliStart
    \/ CliFetch
    \/ CliReport
    \/ CliCatch

Spec == Init /\ [][Next]_vars

NextScores ==
    \/ ScoreUrl
    \/ ScoreHeaders
    \/ ScoreSocial

SpecScores == Init /\ [][NextScores]_vars

-----------------------------------------------------------------------------
(* bin/cli.js: the options of the command line, the configuration file and *)
(* the object handed to analyzeSEO.  Values are the J values above.        *)

\* the flags a user can pass; JUndefined is a flag that was not passed
CliFlags(maxImageSize, minWords, maxJsSize, verbose, noAdvanced) ==
    [maxImageSize |-> maxImageSize, minWords |-> minWords,
     maxJsSize |-> maxJsSize, verbose |-> verbose, noAdvanced |-> noAdvanced]

FlagInputs ==
    {CliFlags(i, w, j, v, a) :
        i \in {JUndefined, JStr("150"), JStr("200")},
        w \in {JUndefined, JStr("500")},
        j \in {JUndefined, JStr("750")},
        v \in BOOLEAN, a \in BOOLEAN}

\* the object commander hands to the action: an option declared with a
\* default holds the default when its flag is not passed, and the negatable
\* --no-advanced makes advanced true unless it is passed
CommanderOptions(flags) ==
    [format |-> JStr("json"),
     output |-> JStr("./reports"),
     verbose |-> IF flags.verbose THEN JBool(TRUE) ELSE JUndefined,
     advanced |-> JBool(~flags.noAdvanced),
     maxImageSize |-> IF flags.maxImageSize # JUndefined
                      THEN flags.maxImageSize ELSE JStr("100"),
     minWords |-> IF flags.minWords # JUndefined
                  THEN flags.minWords ELSE JStr("300"),
     maxJsSize |-> IF flags.maxJsSize # JUndefined
                   THEN flags.maxJsSize ELSE JStr("400"),
     crawlDepth |-> JStr("0")]

\* the parsed configuration file; JUndefined is a key the file does not set,
\* and no file at all is the object without keys
ConfigFile(maxImageSize, minWords, verbose, advanced, advancedAnalysis, timeout) ==
    [maxImageSize |-> maxImageSize, minWords |-> minWords,
     maxJsSize |-> JUndefined, verbose |-> verbose, advanced |-> advanced,
     advancedAnalysis |-> advancedAnalysis, timeout |-> timeout]

ConfigInputs ==
    {ConfigFile(i, w, v, a, aa, t) :
        i \in {JUndefined, JNum(250)},
        w \in {JUndefined, JNum(600)},
        v \in {JUndefined, JBool(TRUE)},
        a \in {JUndefined, JBool(FALSE)},
        aa \in {JUndefined, JBool(FALSE)},
        t \in {JUndefined, JNum(5000)}}

\* a || b
JOr(a, b) == IF JTruthy(a) THEN a ELSE b

\* a ?? b
JNullish(a, b) == IF a.t \in {"null", "undefined"} THEN b ELSE a

\* parseInt(x, 10) of a number or of a string of digits
ParseInt(x) == IF x.t = "number" THEN x.n ELSE ParseDigits(x.v, 1, 0)

\* lines 54-63: the configuration is spread first and six keys are then set
AnalysisOptions(opts, config) ==
    [timeout |-> config.timeout,
     advanced |-> JNullish(opts.advanced, JNullish(config.advanced, JBool(TRUE))),
     maxImageSize |->
        JNum(ParseInt(JOr(opts.maxImageSize, JOr(config.maxImageSize, JNum(100))))),
     minWords |->
        JNum(ParseInt(JOr(opts.minWords, JOr(config.minWords, JNum(300))))),
     maxJsSize |->
        JNum(ParseInt(JOr(opts.maxJsSize, JOr(config.maxJsSize, JNum(400))))),
     verbose |-> JOr(opts.verbose, JOr(config.verbose, JBool(FALSE))),
     advancedAnalysis |-> opts.advanced]

-----------------------------------------------------------------------------
(* The functions of the command line and of the content and schema         *)
(* analyzers applied on their own; scored holds the function, its input    *)
(* and its output.                                                         *)

BuildAnalysisOptions ==
    /\ scored = <<>>
    /\ \E flags \in FlagInputs, config \in ConfigInputs :
        scored' = [fn |-> "analysisOptions",
                   input |-> [flags |-> flags, config |-> config],
                   output |-> AnalysisOptions(CommanderOptions(flags), config)]
    /\ UNCHANGED <<entry, cli, cliPc, options, html, pc, locals, results,
                   thrown, handles, world, reports, log>>

\* The Product blocks handed to validateJsonLd: one @context out of a string
\* naming schema.org, an array holding that string, an object with @vocab and
\* a string of another vocabulary, and any subset of the four properties,
\* with a name that may be the empty string.
ProductContexts ==
    {JStr("https://schema.org"),
     JStr("http://schema.org/"),
     JArr(<<JStr("https://schema.org")>>),
     JObj(<<<<"@vocab", JStr("https://schema.org/")>>>>),
     JStr("https://example.com/vocab")}

ProductProperty(key) ==
    CASE key = "name" -> JStr("Widget")
      [] key = "description" -> JStr("A widget")
      [] key = "image" -> JStr("https://example.com/widget.png")
      [] key = "offers" -> JObj(<<<<"price", JStr("9.99")>>>>)

ProductKeys == <<"name", "description", "image", "offers">>

ProductBlock(context, present) ==
    JObj(<<<<"@context", context>>, <<"@type", JStr("Product")>>>>
         \o Concat([i \in 1..Len(ProductKeys) |->
                       When(ProductKeys[i] \in present,
                            <<ProductKeys[i], ProductProperty(ProductKeys[i])>>)]))

JsonLdBlocks ==
    {ProductBlock(context, present) :
        context \in ProductContexts, present \in SUBSET SeqToSet(ProductKeys)}
    \cup {JObj(<<<<"@context", JStr("https://schema.org")>>,
                 <<"@type", JStr("Product")>>, <<"name", JStr("")>>,
                 <<"description", JStr("A widget")>>>>),
          JObj(<<<<"@context", JStr("https://schema.org")>>,
                 <<"@type", JStr("Article")>>, <<"headline", JStr("News")>>>>),
          JObj(<<<<"@type", JStr("Product")>>>>),
          JNull}

\* validateJsonLd(data), as analyzeJsonLd calls it on one parsed block
ValidateBlock ==
    /\ scored = <<>>
    /\ \E data \in JsonLdBlocks :
        scored' = [fn |-> "validateJsonLd",
                   input |-> data,
                   output |-> IF validateJsonLdThrows(data)
                              THEN [returns |-> FALSE, valid |-> FALSE,
                                    issues |-> <<>>]
                              ELSE [returns |-> TRUE,
                                    valid |-> validateJsonLd(data).valid,
                                    issues |-> validateJsonLd(data).issues]]
    /\ UNCHANGED <<entry, cli, cliPc, options, html, pc, locals, results,
                   thrown, handles, world, reports, log>>

\* The texts and target keywords handed to analyzeKeywords: the text of the
\* documented example, a text with capitals and punctuation, a text where the
\* keyword is part of longer words, the empty text and a text of punctuation
\* only; keywords of one and two words, in capitals, and one that is not a
\* regular expression.
KeywordTexts ==
    {"seo seo seo test",
     "SEO, seo! Seo-test.",
     "seotips and seo tips",
     "the cat sat",
     "",
     "?!"}

KeywordPool == <<"seo", "SEO", "seo tips", "test", "cat", "c++">>

KeywordLists ==
    {<<KeywordPool[i]>> : i \in 1..Len(KeywordPool)}
    \cup {<<KeywordPool[i], KeywordPool[j]>> :
             i \in 1..Len(KeywordPool), j \in 1..Len(KeywordPool)}

\* analyzeKeywords(text, targetKeywords)
CountKeywords ==
    /\ scored = <<>>
    /\ \E text \in KeywordTexts, targetKeywords \in KeywordLists :
        scored' = [fn |-> "analyzeKeywords",
                   input |-> [text |-> text, targetKeywords |-> targetKeywords],
                   output |-> IF analyzeKeywordsThrows(text, targetKeywords)
                              THEN [returns |-> FALSE, targetKeywords |-> <<>>]
                              ELSE [returns |-> TRUE,
                                    targetKeywords |->
                                        analyzeKeywords(text, targetKeywords)
                                            .targetKeywords.v]]
    /\ UNCHANGED <<entry, cli, cliPc, options, html, pc, locals, results,
                   thrown, handles, world, reports, log>>

\* The texts handed to calculateReadability: the documented example, the
\* empty text, texts without a sentence terminator, runs of terminators,
\* terminators set apart by blanks, and words short and long enough to take
\* the reading ease beyond both ends of its scale.
ReadabilityTexts ==
    {"The cat sat. The cat ran.",
     "",
     "   ",
     "no terminator here",
     "Stop! Go? Yes...",
     "Wait . . . what?!",
     "The beautiful garden is open.",
     "Internationalization characterization",
     "Urbanization happened. Communities changed.",
     "Go"}

\* calculateReadability(text)
MeasureReadability ==
    /\ scored = <<>>
    /\ \E text \in ReadabilityTexts :
        scored' = [fn |-> "calculateReadability",
                   input |-> text,
                   output |-> calculateReadability(text)]
    /\ UNCHANGED <<entry, cli, cliPc, options, html, pc, locals, results,
                   thrown, handles, world, reports, log>>

\* The documents handed to the extractors: no title element, an empty one
\* and the title of the test page; up to three headings of levels 1, 2 and
\* 6 in any order; no viewport meta tag, one or two of them.
TitleChoices == {JSNull, Some(""), Some("Test Page")}

HeadingPool ==
    {[level |-> 1, text |-> "Main Heading"],
     [level |-> 2, text |-> "Subheading"],
     [level |-> 1, text |-> "Second Heading"],
     [level |-> 6, text |-> ""]}

MaxHeadings == 3

HeadingChoices ==
    {hs \in UNION {[1..n -> HeadingPool] : n \in 0..MaxHeadings} :
        \A i, j \in 1..Len(hs) : i # j => hs[i] # hs[j]}

ViewportPool ==
    <<"width=device-width, initial-scale=1.0", "WIDTH=Device-Width",
      "initial-scale=1", "">>

ViewportChoices ==
    {<<>>}
    \cup {<<Meta("name", "viewport", ViewportPool[i])>> : i \in 1..Len(ViewportPool)}
    \cup {<<Meta("name", "viewport", ViewportPool[i]),
            Meta("name", "viewport", ViewportPool[j])>> : i, j \in 1..2 \cup {3}}

ExtractionDocuments ==
    {[EmptyDocument EXCEPT
         !.title = title,
         !.headingElements = hs,
         !.metas = <<Meta("name", "description", "A test page")>> \o viewport] :
        title \in TitleChoices, hs \in HeadingChoices,
        viewport \in ViewportChoices}

\* the extractors of lines 439-447 and 456 of analyzeSEO on one document
ExtractFields ==
    /\ scored = <<>>
    /\ \E document \in ExtractionDocuments :
        scored' = [fn |-> "extract",
                   input |-> document,
                   output |-> [title |-> extractMetaInfo(document).title,
                               headings |-> extractHeadings(document),
                               mobileFriendliness |->
                                   analyzeMobileFriendliness(document)]]
    /\ UNCHANGED <<entry, cli, cliPc, options, html, pc, locals, results,
                   thrown, handles, world, reports, log>>

\* The documents handed to analyzeStructuredData: every combination of the
\* four element shapes the recommendations look for, with or without a
\* Product microdata item, and a list of application/ld+json blocks: none,
\* blocks of the looked-for types, a block that is not JSON, and blocks
\* whose JSON is null, a number, a string or an array that holds null.
TypedBlock(type) ==
    JsonLd(JObj(<< <<"@context", JStr("https://schema.org")>>,
                   <<"@type", JStr(type)>> >>))

MalformedBlock ==
    [parses |-> FALSE, data |-> JNull,
     message |-> "Unexpected end of JSON input"]

JsonLdScripts ==
    {<<>>,
     <<TypedBlock("Organization")>>,
     <<TypedBlock("Article")>>,
     <<TypedBlock("Product"), TypedBlock("FAQPage")>>,
     <<JsonLd(JArr(<<TypedBlock("BreadcrumbList").data,
                     TypedBlock("BlogPosting").data>>))>>,
     <<TypedBlock("LocalBusiness"), TypedBlock("BreadcrumbList"),
       TypedBlock("NewsArticle"), TypedBlock("Product"), TypedBlock("FAQPage")>>,
     <<MalformedBlock>>,
     <<MalformedBlock, TypedBlock("Article")>>,
     <<TypedBlock("Article"), MalformedBlock, TypedBlock("Product"),
       MalformedBlock>>,
     <<JsonLd(JNull)>>,
     <<TypedBlock("Article"), JsonLd(JNull)>>,
     <<JsonLd(JNum(5))>>,
     <<JsonLd(JStr("Article"))>>,
     <<JsonLd(JBool(FALSE)), TypedBlock("Product")>>,
     <<JsonLd(JArr(<<JNull>>))>>,
     <<JsonLd(JArr(<<TypedBlock("Article").data, JNull>>)), MalformedBlock>>}

MicrodataChoices ==
    {<<>>,
     <<[itemtype |-> "https://schema.org/Product",
        properties |-> << <<"name", "Widget">> >>]>>}

StructuredDocuments ==
    {[EmptyDocument EXCEPT
         !.navElements = nav, !.articleElements = article,
         !.productElements = product, !.faqElements = faq,
         !.jsonld = scripts, !.microdata = items] :
        nav \in BOOLEAN, article \in BOOLEAN, product \in BOOLEAN,
        faq \in BOOLEAN, scripts \in JsonLdScripts, items \in MicrodataChoices}

\* analyzeStructuredData(document): the result, or a TypeError
AnalyzeStructured ==
    /\ scored = <<>>
    /\ \E document \in StructuredDocuments :
        scored' = [fn |-> "analyzeStructuredData",
                   input |-> document,
                   output |-> IF analyzeStructuredDataThrows(document)
                              THEN [returns |-> FALSE]
                              ELSE [returns |-> TRUE,
                                    value |-> analyzeStructuredData(document)]]
    /\ UNCHANGED <<entry, cli, cliPc, options, html, pc, locals, results,
                   thrown, handles, world, reports, log>>

\* The documents handed to analyzeContentStructure, given by the word
\* counts of their paragraphs and their number of lists: no paragraph to
\* seven paragraphs, all of one length or the first one of another length.
ParagraphLengths == {0, 10, 59, 70, 90, 120, 151, 200}

ParagraphCounts == {0, 1, 3, 4, 6, 7}

ListCounts == 0..2

ParagraphProfiles ==
    {[i \in 1..n |-> IF i = 1 THEN first ELSE rest] :
        n \in ParagraphCounts, first \in ParagraphLengths,
        rest \in ParagraphLengths}

\* analyzeContentStructure(document)
RateStructure ==
    /\ scored = <<>>
    /\ \E paragraphLengths \in ParagraphProfiles, lists \in ListCounts :
        scored' = [fn |-> "analyzeContentStructure",
                   input |-> [paragraphLengths |-> paragraphLengths,
                              lists |-> lists],
                   output |-> ContentStructureOf(paragraphLengths, lists,
                                                 2 * lists)]
    /\ UNCHANGED <<entry, cli, cliPc, options, html, pc, locals, results,
                   thrown, handles, world, reports, log>>

NextFunctions ==
    \/ BuildAnalysisOptions
    \/ ValidateBlock
    \/ CountKeywords
    \/ MeasureReadability
    \/ ExtractFields
    \/ AnalyzeStructured
    \/ RateStructure

SpecFunctions == Init /\ [][NextFunctions]_vars

-----------------------------------------------------------------------------
(* analyzeJavaScriptDependencies, step by step (performance-analyzer.js     *)
(* 117-154).  The call in progress is held in scored: pc is "navigating"    *)
(* while page.goto is awaited, "closing" while browser.close() is awaited   *)
(* and "returned" afterwards; toArrive are the script responses the page    *)
(* has not delivered yet, pending the 'response' callbacks that await       *)
(* response.buffer(), jsFiles the array the callbacks push to, which is     *)
(* also the array the call returns.                                         *)

ScriptPool ==
    {[url |-> "https://example.com/app.js", size |-> 600000],
     [url |-> "https://example.com/vendor.js", size |-> 1200],
     [url |-> "https://cdn.example.com/lib.js", size |-> 40000]}

ProbeOptions == [thresholds |-> [totalJsSize |-> 500 * 1024]]

InProbe(at) ==
    scored # <<>> /\ scored.fn = "analyzeJavaScriptDependencies" /\ scored.pc \in at

\* lines 118-139: the browser is launched, the handlers are registered and
\* page.goto starts loading a page with some scripts
JsProbeStart ==
    /\ scored = <<>>
    /\ \E scripts \in SUBSET ScriptPool :
        scored' = [fn |-> "analyzeJavaScriptDependencies", pc |-> "navigating",
                   toArrive |-> scripts, pending |-> {}, jsFiles |-> <<>>,
                   failed |-> FALSE, result |-> JSUndefined]
    /\ UNCHANGED <<entry, cli, cliPc, options, html, pc, locals, results,
                   thrown, handles, world, reports, log>>

\* lines 127-129: a script response arrives while the page is open; the
\* callback runs up to await response.buffer()
ScriptResponds ==
    /\ InProbe({"navigating", "closing"})
    /\ \E file \in scored.toArrive :
        scored' = [scored EXCEPT !.toArrive = @ \ {file},
                                 !.pending = @ \cup {file}]
    /\ UNCHANGED <<entry, cli, cliPc, options, html, pc, locals, results,
                   thrown, handles, world, reports, log>>

\* lines 130-132: response.buffer() is fulfilled and the callback pushes
BufferResolves ==
    /\ scored # <<>> /\ scored.fn = "analyzeJavaScriptDependencies"
    /\ \E file \in scored.pending :
        scored' = [scored EXCEPT !.pending = @ \ {file},
                                 !.jsFiles = Append(@, file)]
    /\ UNCHANGED <<entry, cli, cliPc, options, html, pc, locals, results,
                   thrown, handles, world, reports, log>>

\* lines 133-135: response.buffer() is rejected (a redirect, an evicted
\* body); the callback warns and pushes nothing
BufferRejects ==
    /\ InProbe({"navigating", "closing"})
    /\ \E file \in scored.pending :
        scored' = [scored EXCEPT !.pending = @ \ {file}]
    /\ UNCHANGED <<entry, cli, cliPc, options, html, pc, locals, results,
                   thrown, handles, world, reports, log>>

\* lines 139-143: page.goto is fulfilled at network idle, which allows two
\* connections still open, or rejected (a timeout); finally starts closing
GotoSettles ==
    /\ InProbe({"navigating"})
    /\ \E failed \in BOOLEAN :
        scored' = [scored EXCEPT !.pc = "closing", !.failed = failed]
    /\ UNCHANGED <<entry, cli, cliPc, options, html, pc, locals, results,
                   thrown, handles, world, reports, log>>

PendingAfterClose_kept(pending) == pending

\* browser.close() ends the connection: every protocol call that is still
\* waiting, response.buffer() included, is rejected with it
PendingAfterClose(pending) == {}

\* lines 144-153: browser.close() is fulfilled; the sum is taken and the
\* array is returned
JsProbeReturns ==
    /\ InProbe({"closing"})
    /\ scored' = [scored EXCEPT
                    !.pc = "returned",
                    !.toArrive = {},
                    !.pending = PendingAfterClose(@),
                    !.result = Some(JsDependencies(scored.jsFiles, ProbeOptions))]
    /\ UNCHANGED <<entry, cli, cliPc, options, html, pc, locals, results,
                   thrown, handles, world, reports, log>>

NextJsDeps ==
    \/ JsProbeStart
    \/ ScriptResponds
    \/ BufferResolves
    \/ BufferRejects
    \/ GotoSettles
    \/ JsProbeReturns

SpecJsDeps == Init /\ [][NextJsDeps]_vars

-----------------------------------------------------------------------------
(* Properties                                                              *)

\* the text the advanced analyzers work on, for the call in progress
TextOfCall == extractTextContent(html.document)

\* the keyword analyzer throws in the call in progress
KeywordsThrowInCall ==
    /\ KeywordsRequested(options)
    /\ analyzeKeywordsThrows(TextOfCall, options.targetKeywords.v)

\* C1: with advanced analysis enabled, when an advanced analyzer throws, the
\* analyzers after it in the invocation order still run and their keys are
\* in the record: when the keyword analyzer throws, the record analyzeSEO
\* goes on with still has structuredDataAnalysis.
C1_LaterAnalyzersStillRun ==
    (/\ pc \in {"generateReport", "resolved"}
     /\ options.advancedAnalysis # Some(FALSE)
     /\ KeywordsThrowInCall)
    => "structuredDataAnalysis" \in DOMAIN results

ProbeNames ==
    {"getPerformanceMetrics", "performAccessibilityAudit", "detectCSRorSSR",
     "detectLazyLoading", "analyzeJavaScriptDependencies"}

\* C3: every failure inside an external probe, the failure to launch the
\* browser included, is swallowed by the probe: no probe rejects, so
\* analyzeSEO never rejects with an error that left a probe.
C3_ProbesNeverReject ==
    pc = "rejected" => thrown.v.at \notin ProbeNames

\* C4: a probe never returns while a browser it launched is open: a handle
\* is open only while its probe is between its launch and its return.
C4_HandlesClosedOnReturn ==
    \A h \in handles :
        \/ h = "chrome" /\ pc = "lighthouse"
        \/ h # "chrome" /\ pc = h \o ":page"

C6_RejectsBadInput ==
    /\ (pc \notin {"idle", "called"} /\ options.url.href = "")
       => /\ pc = "rejected"
          /\ world = [doms |-> 0, fetches |-> 0, launches |-> 0]
          /\ handles = {}
    /\ (/\ pc \notin {"idle", "called", "createDOM"}
        /\ (~options.url.valid \/ ~html.convertible))
       => pc = "rejected"
    /\ pc = "rejected" => reports = <<>>

C6_Witness ==
    /\ pc = "rejected"
    /\ options.url.href = ""
    /\ thrown = Some([at |-> "analyzeSEO",
                      message |-> "URL is required in options"])

\* C7: one run, started from the CLI or from the API, hands the record to
\* exactly one emitter: no run writes two report files, and a run that
\* succeeded (the command exited with 0; the call resolved and no report
\* failed) has written exactly one.
C7_ExactlyOneReport ==
    /\ Len(reports) <= 1
    /\ (\/ cliPc = "exit0"
        \/ /\ entry = "api"
           /\ pc = "resolved"
           /\ \A i \in 1..Len(log) :
                ~StartsWith(log[i], "Error generating report: "))
       => Len(reports) = 1

\* the scores in the output of a scoring analyzer: its own and those of the
\* analyses inside it
ScoresOf(output) ==
    {output.score} \cup
    {output[k].score :
        k \in DOMAIN output \cap
              {"protocolAnalysis", "domainAnalysis", "pathAnalysis",
               "queryAnalysis", "crawlPathAnalysis", "cacheAnalysis",
               "securityAnalysis", "contentAnalysis", "compressionAnalysis",
               "openGraphAnalysis", "twitterCardAnalysis",
               "socialLinksAnalysis", "socialSharingAnalysis"}}

\* C8: every score and sub-score that analyzeUrl, analyzeHeaders and
\* analyzeSocialMedia return is an integer from 0 to 100.
C8_ScoresInRange ==
    scored # <<>> => \A score \in ScoresOf(scored.output) : score \in 0..100

C8_Witness ==
    /\ scored # <<>>
    /\ scored.fn = "analyzeHeaders"
    /\ "compressionAnalysis" \in DOMAIN scored.output
    /\ scored.output.compressionAnalysis.contentEncoding = Some("br")
    /\ scored.output.compressionAnalysis.vary = Some("Accept-Encoding")
    /\ scored.output.compressionAnalysis.score = 100

\* C9: every record analyzeSEO returns, one with the empty placeholder of a
\* probe included, is accepted by each of the three emitters: generateReport
\* succeeds on it for the formats json, html and pdf.
C9_EveryEmitterAccepts ==
    pc = "resolved" =>
        \A format \in {"json", "html", "pdf"} :
            generateReport(results, [options EXCEPT !.format = Some(format)],
                           "ok").ok

Defined(obj, key) == key \in DOMAIN obj /\ obj[key] # JSUndefined

\* C11: after a call with advanced analysis enabled, headers supplied and no
\* analyzer failure, the fields the readme reads are all defined:
\* contentAnalysis.readability.score, urlAnalysis.score,
\* socialMediaAnalysis.score, headersAnalysis.securityAnalysis.score and
\* structuredDataAnalysis.schemaTypes.
C11_ReadmeFieldsDefined ==
    (/\ pc = "resolved"
     /\ options.advancedAnalysis # Some(FALSE)
     /\ options.headers # JSUndefined
     /\ "errors" \notin DOMAIN results)
    => /\ Defined(results.contentAnalysis.readability, "score")
       /\ Defined(results.urlAnalysis, "score")
       /\ Defined(results.socialMediaAnalysis, "score")
       /\ Defined(results.headersAnalysis.securityAnalysis, "score")
       /\ Defined(results.structuredDataAnalysis, "schemaTypes")

\* the value the documented precedence gives an option: the flag if it was
\* passed, otherwise the value of the configuration file if the file sets
\* it, otherwise the built-in default
ByPrecedence(flag, file, default) ==
    IF flag # JUndefined THEN flag ELSE IF file # JUndefined THEN file ELSE default

\* C12: each option of the command line that the configuration file can
\* also set takes the value of the flag if the user passed it, otherwise of
\* the file if the file sets it, otherwise the default; a value set only in
\* the file takes effect.
C12_CliOverFileOverDefaults ==
    (scored # <<>> /\ scored.fn = "analysisOptions") =>
        LET flags == scored.input.flags
            config == scored.input.config
            out == scored.output
        IN /\ out.maxImageSize.n =
                ParseInt(ByPrecedence(flags.maxImageSize, config.maxImageSize, JNum(100)))
           /\ out.minWords.n =
                ParseInt(ByPrecedence(flags.minWords, config.minWords, JNum(300)))
           /\ out.maxJsSize.n =
                ParseInt(ByPrecedence(flags.maxJsSize, config.maxJsSize, JNum(400)))
           /\ out.verbose =
                ByPrecedence(IF flags.verbose THEN JBool(TRUE) ELSE JUndefined,
                             config.verbose, JBool(FALSE))
           /\ out.advancedAnalysis =
                ByPrecedence(IF flags.noAdvanced THEN JBool(FALSE) ELSE JUndefined,
                             config.advancedAnalysis, JBool(TRUE))

FacetKeys ==
    {"headersAnalysis", "urlAnalysis", "socialMediaAnalysis", "contentAnalysis",
     "structuredDataAnalysis"}

ExtractorKeys ==
    {"metaInfo", "openGraph", "headings", "canonicalLink", "urlStructure",
     "robotsTxt", "sitemapXml", "images", "largeImages", "jsCrawlabilityIssues",
     "mobileFriendliness"}

ProbeKeys ==
    {"performanceMetrics", "accessibilityIssues", "csrSsrDetection",
     "lazyLoadingIssues", "jsDependencies"}

\* C13: analyzeSEO runs the extractors, then the probes, then the advanced
\* analyzers: no probe result exists before every extractor result, no facet
\* key before every probe result.  The advanced analyzers run exactly when
\* options.advancedAnalysis is not false: disabled, the record has none of
\* the five facet keys and no errors; enabled with nothing thrown, it has
\* all five facet keys.
C13_PhasesAndFacetKeys ==
    /\ (ProbeKeys \cap DOMAIN locals # {}) => ExtractorKeys \subseteq DOMAIN locals
    /\ ((FacetKeys \cup {"errors"}) \cap DOMAIN results # {})
            => ProbeKeys \subseteq DOMAIN locals
    /\ pc = "resolved" =>
        /\ options.advancedAnalysis = Some(FALSE)
                => (FacetKeys \cup {"errors"}) \cap DOMAIN results = {}
        /\ (options.advancedAnalysis # Some(FALSE) /\ "errors" \notin DOMAIN results)
                => FacetKeys \subseteq DOMAIN results

\* C13 as the code has it: the order of the phases and the switch are as
\* stated; enabled with nothing thrown, the record has urlAnalysis,
\* socialMediaAnalysis, contentAnalysis and structuredDataAnalysis, and it
\* has headersAnalysis exactly when options.headers was supplied.
C13_FacetKeysByHeaders ==
    /\ (ProbeKeys \cap DOMAIN locals # {}) => ExtractorKeys \subseteq DOMAIN locals
    /\ ((FacetKeys \cup {"errors"}) \cap DOMAIN results # {})
            => ProbeKeys \subseteq DOMAIN locals
    /\ pc = "resolved" =>
        /\ options.advancedAnalysis = Some(FALSE)
                => (FacetKeys \cup {"errors"}) \cap DOMAIN results = {}
        /\ (options.advancedAnalysis # Some(FALSE) /\ "errors" \notin DOMAIN results)
                => /\ (FacetKeys \ {"headersAnalysis"}) \subseteq DOMAIN results
                   /\ "headersAnalysis" \in DOMAIN results
                        <=> options.headers # JSUndefined

C13_Witness ==
    /\ pc = "resolved"
    /\ options.advancedAnalysis # Some(FALSE)
    /\ "errors" \notin DOMAIN results
    /\ options.headers = JSUndefined
    /\ FacetKeys \cap DOMAIN results = FacetKeys \ {"headersAnalysis"}

\* analyzeHeaders was applied to a header object that is not empty
HeadersScored ==
    scored # <<>> /\ scored.fn = "analyzeHeaders" /\ Len(scored.input) > 0

\* C14: for a header object that is not empty, the cache, the security and
\* the content sub-analyzer each return exactly 100 whenever they list no
\* issue, whatever the points they added up.  (That the compression
\* sub-analyzer has no such rule is shown by C14_Witness, where it lists no
\* issue and returns 90.)
C14_NoIssuesForces100 ==
    HeadersScored =>
        \A sub \in {"cacheAnalysis", "securityAnalysis", "contentAnalysis"} :
            Len(scored.output[sub].issues) = 0 => scored.output[sub].score = 100

\* the points add up to 50, 100 and 80, and compression ends at 90
C14_Witness ==
    /\ HeadersScored
    /\ scored.output.cacheAnalysis.cacheControl = "max-age"
    /\ "x-robots-tag" \notin DOMAIN scored.output.headers
    /\ \A sub \in {"cacheAnalysis", "securityAnalysis", "contentAnalysis"} :
        /\ Len(scored.output[sub].issues) = 0
        /\ scored.output[sub].score = 100
    /\ Len(scored.output.compressionAnalysis.issues) = 0
    /\ scored.output.compressionAnalysis.score = 90

\* the header object given to analyzeHeaders names none of the three cache
\* headers, in whatever case its keys are written
NoCacheHeaderGiven ==
    \A i \in 1..Len(scored.input) :
        ToLowerCase(scored.input[i][1])
            \notin {"cache-control", "etag", "last-modified"}

\* C15: for a header object that is not empty and has none of cache-control,
\* etag and last-modified, in any key case, the cache sub-score is 0 and the
\* cache sub-analyzer lists exactly three issues.
C15_NoCacheHeadersScoreZero ==
    (HeadersScored /\ NoCacheHeaderGiven) =>
        /\ scored.output.cacheAnalysis.score = 0
        /\ Len(scored.output.cacheAnalysis.issues) = 3

C15_Witness ==
    /\ HeadersScored
    /\ NoCacheHeaderGiven
    /\ Len(scored.input) >= 3
    /\ scored.output.cacheAnalysis.score = 0
    /\ scored.output.cacheAnalysis.issues =
        <<"No Cache-Control header found", "No ETag header found",
          "No Last-Modified header found">>

UrlScored == scored # <<>> /\ scored.fn = "analyzeUrl"

SubAnalyses ==
    <<"protocolAnalysis", "domainAnalysis", "pathAnalysis", "queryAnalysis",
      "crawlPathAnalysis">>

\* n is an integer nearest to sum / count
NearestTo(n, sum, count) ==
    /\ 2 * (count * n - sum) <= count
    /\ 2 * (sum - count * n) <= count

\* C16: analyzeUrl returns score 0 with the single issue 'Invalid URL...'
\* for a URL that does not parse and score 0 with an issue when no URL is
\* given; for a URL that parses, the score is the mean of the five
\* sub-scores rounded to the nearest integer and the issues are the issues
\* of the five sub-analyzers, concatenated in the order protocol, domain,
\* path, query, crawl path.
C16_UrlScoreIsMean ==
    UrlScored =>
        LET url == scored.input.url
            out == scored.output
        IN IF url.href = ""
           THEN out.score = 0 /\ Len(out.issues) >= 1
           ELSE IF ~url.valid
           THEN /\ out.score = 0
                /\ Len(out.issues) = 1
                /\ StartsWith(out.issues[1], "Invalid URL")
           ELSE /\ NearestTo(out.score,
                             SumSeq([i \in 1..5 |-> out[SubAnalyses[i]].score]),
                             5)
                /\ out.issues =
                     Concat([i \in 1..5 |-> out[SubAnalyses[i]].issues])

\* a URL with an issue in each of four sub-analyzers and unequal sub-scores
C16_Witness ==
    /\ UrlScored
    /\ scored.input.url.valid
    /\ scored.output.protocolAnalysis.score = 40
    /\ scored.output.domainAnalysis.score < 100
    /\ scored.output.pathAnalysis.score < scored.output.domainAnalysis.score
    /\ scored.output.queryAnalysis.score < 100
    /\ Len(scored.output.issues) >= 4

\* C17: for a URL that parses, the protocol sub-score is 100 with no issue
\* for https:, 40 with exactly one issue and one recommendation for http:,
\* and 20 with exactly one issue for any other scheme.
C17_ProtocolScore ==
    (UrlScored /\ scored.input.url.href # "" /\ scored.input.url.valid) =>
        LET protocol == scored.input.url.protocol
            analysis == scored.output.protocolAnalysis
        IN /\ protocol = "https:" =>
                analysis.score = 100 /\ Len(analysis.issues) = 0
           /\ protocol = "http:" =>
                /\ analysis.score = 40
                /\ Len(analysis.issues) = 1
                /\ Len(analysis.recommendations) = 1
           /\ protocol \notin {"https:", "http:"} =>
                analysis.score = 20 /\ Len(analysis.issues) = 1

C17_Witness ==
    /\ UrlScored
    /\ scored.input.url.valid
    /\ scored.input.url.protocol = "ftp:"
    /\ scored.output.protocolAnalysis.score = 20
    /\ scored.output.protocolAnalysis.issues = <<"Unusual protocol: ftp:">>

\* a property is missing when the block has no such member or an empty one
PropertyMissing(data, key) == ~JTruthy(JGet(data, key))

MissingCount(data) ==
    Cardinality({i \in 1..Len(ProductKeys) : PropertyMissing(data, ProductKeys[i])})

\* the @context names schema.org: a string holding "schema.org", an array
\* with such a string, or an object whose @vocab is such a string
NamesSchemaOrg(context) ==
    \/ context.t = "string" /\ Includes(context.v, "schema.org")
    \/ /\ context.t = "array"
       /\ \E i \in 1..Len(context.items) :
            /\ context.items[i].t = "string"
            /\ Includes(context.items[i].v, "schema.org")
    \/ /\ context.t = "object"
       /\ JGet(context, "@vocab").t = "string"
       /\ Includes(JGet(context, "@vocab").v, "schema.org")

ProductValidated ==
    /\ scored # <<>>
    /\ scored.fn = "validateJsonLd"
    /\ scored.input.t = "object"
    /\ JGet(scored.input, "@type") = JStr("Product")
    /\ NamesSchemaOrg(JGet(scored.input, "@context"))

\* C18: for every Product block with a schema.org @context the number of
\* validation issues is the number of properties missing among name,
\* description, image and offers, and valid is true exactly when no issue is
\* listed; the block with only @context and @type gives 4 issues and
\* valid = false.
C18_ProductIssuesCountMissing ==
    ProductValidated =>
        /\ scored.output.returns
        /\ Len(scored.output.issues) = MissingCount(scored.input)
        /\ scored.output.valid <=> scored.output.issues = <<>>

KeywordsCounted == scored # <<>> /\ scored.fn = "analyzeKeywords"

\* the text in lower case with every character that is neither a letter, a
\* digit, an underscore nor white space replaced by a blank
StrippedText(text) ==
    LET lower == ToLowerCase(text)
    IN [i \in 1..Len(lower) |->
           IF CharAt(lower, i) \in WordChars \cup WhitespaceChars
           THEN CharAt(lower, i) ELSE " "]

\* the positions where the keyword stands as a whole word in the stripped text
WholeWordAt(chars, keyword) ==
    {p \in 1..(Len(chars) - Len(keyword) + 1) :
        /\ \A k \in 1..Len(keyword) : chars[p + k - 1] = CharAt(keyword, k)
        /\ (p = 1 \/ chars[p - 1] \notin WordChars)
        /\ (p + Len(keyword) > Len(chars)
            \/ chars[p + Len(keyword)] \notin WordChars)}

\* the number of words of the stripped text
WordTotal(chars) ==
    Cardinality({p \in 1..Len(chars) :
                    /\ chars[p] \notin WhitespaceChars
                    /\ (p = 1 \/ chars[p - 1] \in WhitespaceChars)})

\* digits, a point, two digits and a percent sign
IsPercentage(s) ==
    /\ Len(s) >= 5
    /\ CharAt(s, Len(s)) = "%"
    /\ CharAt(s, Len(s) - 3) = "."
    /\ \A i \in (1..(Len(s) - 1)) \ {Len(s) - 3} : CharAt(s, i) \in DigitChars

\* the hundredths of a percentage
Hundredths(s) ==
    100 * ParseDigits(s, 1, 0) + ParseDigits(SubSeq(s, Len(s) - 2, Len(s) - 1), 1, 0)

\* C19: for every text and every target keyword analyzeKeywords reports the
\* number of whole-word occurrences of the lower-cased keyword in the
\* lower-cased, punctuation-stripped text, the density count / words as a
\* percentage with two decimals, and the flag true exactly when count > 0.
C19_KeywordCountAndDensity ==
    KeywordsCounted =>
        /\ scored.output.returns
        /\ Len(scored.output.targetKeywords) = Len(scored.input.targetKeywords)
        /\ \A i \in 1..Len(scored.input.targetKeywords) :
            LET chars == StrippedText(scored.input.text)
                keyword == ToLowerCase(scored.input.targetKeywords[i])
                reported == scored.output.targetKeywords[i]
                total == WordTotal(chars)
            IN /\ reported.count = Cardinality(WholeWordAt(chars, keyword))
               /\ reported.sufficient <=> reported.count > 0
               /\ IsPercentage(reported.density)
               /\ total > 0 =>
                    \* the closest hundredth to 100 * count / total
                    2 * total * Hundredths(reported.density) - 20000 * reported.count
                        \in (1 - total)..total

ReadabilityMeasured == scored # <<>> /\ scored.fn = "calculateReadability"

\* digits, a point and one digit
IsOneDecimal(s) ==
    /\ Len(s) >= 3
    /\ CharAt(s, Len(s) - 1) = "."
    /\ \A i \in (1..Len(s)) \ {Len(s) - 1} : CharAt(s, i) \in DigitChars

\* the tenths of a number written with one decimal
Tenths(s) == 10 * ParseDigits(s, 1, 0) + DigitVal(CharAt(s, Len(s)))

\* the pieces between runs of '.', '!' and '?' that hold a character
PiecesNonEmpty(s) ==
    Cardinality({i \in 1..Len(s) :
                    /\ CharAt(s, i) \notin SentenceEnds
                    /\ (i = 1 \/ CharAt(s, i - 1) \in SentenceEnds)})

\* the pieces between runs of '.', '!' and '?' that hold a character other
\* than white space: counted at the first such character of each piece
PiecesNotBlank(s) ==
    Cardinality({i \in 1..Len(s) :
                    /\ CharAt(s, i) \notin SentenceEnds \cup WhitespaceChars
                    /\ \E j \in 0..(i - 1) :
                        /\ (j = 0 \/ CharAt(s, j) \in SentenceEnds)
                        /\ \A k \in (j + 1)..(i - 1) :
                              CharAt(s, k) \in WhitespaceChars})

ScoresInRange ==
    /\ IsOneDecimal(scored.output.scores.fleschReadingEase)
    /\ Tenths(scored.output.scores.fleschReadingEase) \in 0..1000
    /\ IsOneDecimal(scored.output.scores.fleschKincaidGrade)
    /\ Tenths(scored.output.scores.fleschKincaidGrade) >= 0

\* C20: for every text, the empty one and one without a terminator included,
\* calculateReadability reports a reading ease within [0, 100], a grade of
\* at least 0, and a sentence count equal to the number of non-empty pieces
\* of the text split on runs of '.', '!' and '?'.
C20_ReadabilityRangesAndSentences ==
    ReadabilityMeasured =>
        /\ ScoresInRange
        /\ scored.output.statistics.sentenceCount
               = PiecesNonEmpty(CollapseWhitespace(scored.input))

\* C20, amended: the sentence count is the number of pieces that hold a
\* character other than white space; the ranges are as stated.
C20_SentencesAreNotBlankPieces ==
    ReadabilityMeasured =>
        /\ ScoresInRange
        /\ scored.output.statistics.sentenceCount
               = PiecesNotBlank(CollapseWhitespace(scored.input))

C20_Witness ==
    /\ ReadabilityMeasured
    /\ scored.input = "The cat sat. The cat ran."
    /\ scored.output.statistics.sentenceCount = 2
    /\ scored.output.scores.fleschReadingEase = "100.0"

Extracted == scored # <<>> /\ scored.fn = "extract"

\* the positions of the hN elements of the document, for one N
HeadingPositions(document, level) ==
    {i \in 1..Len(document.headingElements) :
        document.headingElements[i].level = level}

\* texts lists the hN elements in document order
ListsInOrder(texts, document, level) ==
    LET at == HeadingPositions(document, level)
        Before(i) == Cardinality({j \in at : j < i})
    IN /\ Len(texts) = Cardinality(at)
       /\ \A i \in at : texts[Before(i) + 1] = document.headingElements[i].text

\* a viewport meta tag whose content contains width=device-width
DeclaresDeviceWidth(document) ==
    \E i \in 1..Len(document.metas) :
        /\ document.metas[i].attr = "name"
        /\ document.metas[i].key = "viewport"
        /\ Includes(ToLowerCase(document.metas[i].content), "width=device-width")

\* C21: for every document, title is the text of the title element or '',
\* headings.hN lists the text of every hN element in document order, and
\* mobileFriendliness.isResponsive is true exactly when a viewport meta tag
\* exists whose content contains width=device-width, whatever its case.
C21_ExtractionMirrorsDocument ==
    Extracted =>
        /\ scored.output.title
               = (IF scored.input.title = JSNull THEN "" ELSE scored.input.title.v)
        /\ \A level \in 1..6 :
              ListsInOrder(scored.output.headings["h" \o NatToString(level)],
                           scored.input, level)
        /\ (scored.output.mobileFriendliness.isResponsive = Some(TRUE))
               <=> DeclaresDeviceWidth(scored.input)

\* the base score the content-encoding earns
EncodingBase(normalized) ==
    LET encoding == HeaderOrEmpty(normalized, "content-encoding")
    IN IF encoding = "" THEN 0
       ELSE IF Includes(encoding, "br") THEN 100
       ELSE IF Includes(encoding, "gzip") THEN 80
       ELSE IF Includes(encoding, "deflate") THEN 70
       ELSE 50

VaryNamesAcceptEncoding(normalized) ==
    /\ "vary" \in DOMAIN normalized
    /\ Includes(normalized["vary"], "Accept-Encoding")

\* the same headers with a Vary header that names Accept-Encoding
WithVary(normalized) ==
    [k \in DOMAIN normalized \cup {"vary"} |->
        IF k = "vary" THEN "Accept-Encoding" ELSE normalized[k]]

\* C22: the compression score without a Vary header that includes
\* Accept-Encoding is the base score of the content-encoding (100 for br, 80
\* for gzip, 70 for deflate, 50 for another one, 0 for none), and it is 20
\* points lower than the score of the same content-encoding with such a
\* Vary header.
C22_VaryCosts20 ==
    (HeadersScored /\ ~VaryNamesAcceptEncoding(scored.output.headers)) =>
        /\ scored.output.compressionAnalysis.score
               = EncodingBase(scored.output.headers)
        /\ scored.output.compressionAnalysis.score
               = analyzeCompression(WithVary(scored.output.headers)).score - 20

\* the words of the path: every segment split on '-' and '_'
SegmentWords(pathname) ==
    LET segments == PathSegments(pathname)
    IN Concat([i \in 1..Len(segments) |->
                  SelectSeq(Split(segments[i], {"-", "_"}), NonEmpty)])

\* some word occurs more than once across the segments
SomeWordRepeats(pathname) ==
    LET words == SegmentWords(pathname)
    IN \E i, j \in 1..Len(words) : i < j /\ words[i] = words[j]

\* C23: whenever a single word of the path segments, split on '-' and '_',
\* occurs more than once across the segments, analyzePath records the
\* repeated-keywords issue and subtracts 15.
C23_RepeatedWordCosts15 ==
    (/\ UrlScored /\ scored.input.url.valid
     /\ SomeWordRepeats(scored.input.url.pathname)) =>
        /\ \E i \in 1..Len(scored.output.pathAnalysis.issues) :
              scored.output.pathAnalysis.issues[i]
                  = "URL appears to contain repeated keywords"
        /\ scored.output.pathAnalysis.score <= 85

CrawlPathChecked == UrlScored /\ scored.input.url.valid

\* the supplied URLs that are siblings of the current one: same depth, same
\* parent path, different path
SiblingCount(current, pageUrls) ==
    LET mine == PathSegments(current.pathname)
        Parent(segments) == SubSeq(segments, 1, Len(segments) - 1)
    IN Cardinality({i \in 1..Len(pageUrls) :
          /\ pageUrls[i].valid
          /\ LET theirs == PathSegments(pageUrls[i].pathname)
             IN /\ Len(theirs) = Len(mine)
                /\ Parent(theirs) = Parent(mine)
                /\ pageUrls[i].pathname # current.pathname})

HasText(texts, text) == \E i \in 1..Len(texts) : texts[i] = text

\* the crawl-path score is 100 less 15 for the depth issue, 10 for the
\* inconsistency issue and 5 when `few` holds, and the few-siblings
\* recommendation is given exactly when `few` holds
CrawlPathScoreWith(analysis, few) ==
    /\ analysis.score
           = 100 - Pts(HasText(analysis.issues,
                               "URL is significantly deeper than average site URLs"), 15)
                 - Pts(HasText(analysis.issues,
                               "URL format inconsistency detected across site"), 10)
                 - Pts(few, 5)
    /\ few <=> HasText(analysis.recommendations,
                       "This URL has few sibling pages. Consider building out the content section.")

EmptyListGives100(analysis) ==
    /\ analysis.score = 100
    /\ analysis.issues = <<>>
    /\ Len(analysis.recommendations) = 1

\* C24: with a non-empty sibling list 5 points are subtracted whenever fewer
\* than 2 of the supplied URLs are siblings of the current URL, whatever the
\* depth of the current URL; with an empty list the sub-score is 100 with no
\* issue and exactly one recommendation.
C24_FewSiblingsCost5 ==
    CrawlPathChecked =>
        IF Len(scored.input.pageUrls) = 0
        THEN EmptyListGives100(scored.output.crawlPathAnalysis)
        ELSE CrawlPathScoreWith(
                 scored.output.crawlPathAnalysis,
                 SiblingCount(scored.input.url, scored.input.pageUrls) < 2)

\* C24, amended: the 5 points are subtracted exactly when the current URL
\* has more than one path segment and fewer than 2 siblings are supplied.
C24_FewSiblingsBelowTopLevel ==
    CrawlPathChecked =>
        IF Len(scored.input.pageUrls) = 0
        THEN EmptyListGives100(scored.output.crawlPathAnalysis)
        ELSE CrawlPathScoreWith(
                 scored.output.crawlPathAnalysis,
                 /\ Len(PathSegments(scored.input.url.pathname)) > 1
                 /\ SiblingCount(scored.input.url, scored.input.pageUrls) < 2)

C24_Witness ==
    /\ CrawlPathChecked
    /\ Len(scored.input.pageUrls) > 0
    /\ Len(PathSegments(scored.input.url.pathname)) = 2
    /\ SiblingCount(scored.input.url, scored.input.pageUrls) = 0
    /\ scored.output.crawlPathAnalysis.score = 95

SocialScored == scored # <<>> /\ scored.fn = "analyzeSocialMedia"

\* the positions of the links of the page that match a platform pattern
MatchedLinks(document) ==
    {i \in 1..Len(document.anchors) :
        \E p \in 1..Len(socialPlatforms) :
            MatchesAny(document.anchors[i].href, socialPlatforms[p].patterns)}

\* the platforms that have a matched link
LinkedPlatformCount(document) ==
    Cardinality({p \in 1..Len(socialPlatforms) :
        \E i \in 1..Len(document.anchors) :
            MatchesAny(document.anchors[i].href, socialPlatforms[p].patterns)})

\* the score the matched links alone determine
ScoreOfMatchedLinks(document) ==
    LET at == MatchedLinks(document)
        link(i) == document.anchors[i]
        points ==
            Min(60, 15 * LinkedPlatformCount(document))
            + Pts(\E i \in at : link(i).inHeader \/ link(i).inFooter, 20)
            - Pts(\E i \in at : link(i).hidden, 10)
            + Pts(\A i \in at : link(i).target = "_blank", 10)
            - Pts(\E i \in at : Trim(link(i).text) = "" /\ ~link(i).icon, 10)
    IN IF at = {} THEN 0 ELSE Min(100, Max(0, points))

\* C25: the social-links sub-score is determined by the matched platform
\* links alone: without one it records an issue and awards no points,
\* otherwise it is min(60, 15 * platforms) + 20 for a link in a header or
\* footer - 10 for a hidden link + 10 when every link opens in a new tab
\* - 10 for a link without text or icon, clamped to [0, 100].
C25_SocialLinksScore ==
    SocialScored =>
        /\ scored.output.socialLinksAnalysis.score
               = ScoreOfMatchedLinks(scored.input)
        /\ MatchedLinks(scored.input) = {} =>
               HasText(scored.output.socialLinksAnalysis.issues,
                       "No social media links found on the page")

StructuredAnalysed ==
    scored # <<>> /\ scored.fn = "analyzeStructuredData" /\ scored.output.returns

\* the five SEO-critical types: the names that count as the type, the
\* recommendation that reports it missing, and the element shape of the
\* document that suggests it.  The code names no shape for Organization;
\* the weakest gate is taken for it, an element of any of the shapes.
CriticalTypes ==
    << [names |-> {"Organization", "LocalBusiness"},
        text |-> "No Organization schema found. Add this to improve your brand presence in search results.",
        shape |-> "any"],
       [names |-> {"BreadcrumbList"},
        text |-> "Consider adding BreadcrumbList schema to enhance navigation display in search results.",
        shape |-> "nav"],
       [names |-> {"Article", "NewsArticle", "BlogPosting"},
        text |-> "Content appears to be an article. Add Article schema type to improve visibility in search.",
        shape |-> "article"],
       [names |-> {"Product"},
        text |-> "Page may contain product information. Consider adding Product schema.",
        shape |-> "product"],
       [names |-> {"FAQPage"},
        text |-> "Page may contain FAQ content. Consider adding FAQPage schema to be eligible for rich results.",
        shape |-> "faq"] >>

ShapeMatches(document, shape) ==
    CASE shape = "nav" -> document.navElements \/ document.lists > 0
      [] shape = "article" -> document.articleElements
      [] shape = "product" -> document.productElements
      [] shape = "faq" -> document.faqElements
      [] shape = "any" -> \/ document.navElements \/ document.lists > 0
                          \/ document.articleElements
                          \/ document.productElements \/ document.faqElements

\* the types of the JSON-LD blocks and microdata items of the document
TypesOfDocument(document) ==
    LET TypesOf(data) ==
            IF data.t = "array"
            THEN {JGet(data.items[j], "@type") : j \in 1..Len(data.items)}
            ELSE {JGet(data, "@type")}
        blocks == {i \in 1..Len(document.jsonld) : document.jsonld[i].parses}
    IN {type.v : type \in {x \in UNION {TypesOf(document.jsonld[i].data) : i \in blocks} :
                              x.t = "string"}}
       \cup {LastSegment(document.microdata[i].itemtype) :
                i \in 1..Len(document.microdata)}

\* C26: the 'missing schema' recommendation of each of the five
\* SEO-critical types is emitted only when the type is absent from the
\* JSON-LD and microdata types and the type's element shape is found in the
\* document.
C26_RecommendationsAreGated ==
    StructuredAnalysed =>
        \A i \in 1..Len(CriticalTypes) :
            HasText(scored.output.value.recommendations, CriticalTypes[i].text) =>
                /\ CriticalTypes[i].names \cap TypesOfDocument(scored.input) = {}
                /\ ShapeMatches(scored.input, CriticalTypes[i].shape)

StructuredCalled == scored # <<>> /\ scored.fn = "analyzeStructuredData"

\* the positions, counted from 0, of the blocks that are not JSON
MalformedPositions(document) ==
    {i - 1 : i \in {j \in 1..Len(document.jsonld) : ~document.jsonld[j].parses}}

\* C28: analyzeStructuredData never throws because of the content of an
\* application/ld+json block; every error entry carries the position of
\* its script block, every block that parses is analysed, and count is the
\* number of parsed blocks plus the number of error entries.
C28_BlocksNeverAbort ==
    StructuredCalled =>
        /\ scored.output.returns
        /\ LET jsonld == scored.output.value.jsonld
           IN /\ {jsonld.errors[i].index : i \in 1..Len(jsonld.errors)}
                     = MalformedPositions(scored.input)
              /\ Len(jsonld.errors) = Cardinality(MalformedPositions(scored.input))
              /\ Len(jsonld.analysis) = Len(jsonld.data)
              /\ jsonld.count = Len(jsonld.data) + Len(jsonld.errors)

StructureRated == scored # <<>> /\ scored.fn = "analyzeContentStructure"

\* C27: a document whose average paragraph length is below 60 words, with
\* more than 5 paragraphs and more than 1 list, is rated 'Excellent'.
C27_ExcellentIsAwarded ==
    (/\ StructureRated
     /\ Len(scored.input.paragraphLengths) > 5
     /\ SumSeq(scored.input.paragraphLengths)
            < 60 * Len(scored.input.paragraphLengths)
     /\ scored.input.lists > 1) =>
        scored.output.structureRating = "Excellent"

-----------------------------------------------------------------------------
(* C30 *)

\* index.js 462-471: the probes in the order analyzeSEO awaits them, each
\* with the key of its result and the handle of the browser it launches
ProbeSequence ==
    << [probe |-> "getPerformanceMetrics", key |-> "performanceMetrics",
        handle |-> "chrome"],
       [probe |-> "performAccessibilityAudit", key |-> "accessibilityIssues",
        handle |-> "performAccessibilityAudit"],
       [probe |-> "detectCSRorSSR", key |-> "csrSsrDetection",
        handle |-> "detectCSRorSSR"],
       [probe |-> "detectLazyLoading", key |-> "lazyLoadingIssues",
        handle |-> "detectLazyLoading"],
       [probe |-> "analyzeJavaScriptDependencies", key |-> "jsDependencies",
        handle |-> "analyzeJavaScriptDependencies"] >>

\* the positions of the run that lie inside the k-th probe
InsideProbe(k) ==
    pc \in {ProbeSequence[k].probe, ProbeSequence[k].probe \o ":page"}
            \cup (IF k = 1 THEN {"lighthouse"} ELSE {})

\* the probes before the k-th have returned, the k-th and later ones have not
ProbesInOrder ==
    \A k \in 1..Len(ProbeSequence) :
        InsideProbe(k) =>
            \A j \in 1..Len(ProbeSequence) :
                (ProbeSequence[j].key \in DOMAIN locals) <=> (j < k)

\* C30: the probes run one after another in the order performance,
\* accessibility, CSR/SSR, lazy loading, JS dependencies, a probe starting
\* only after the previous one has returned, and at every point of the run at
\* most one browser launched by the run is open, also after a probe failed.
C30_OneProbeOneBrowserAtATime ==
    /\ ProbesInOrder
    /\ Cardinality(handles) <= 1

====
